---- MODULE Spec2Model ----
(***************************************************************************)
(* Model of the reconciliation engine (src/src/core/comparison.py), of the *)
(* consensus merge engine (src/src/core/llm.py) and of the report object.  *)
(*                                                                         *)
(* Text is a sequence of one-character strings.  A Python value read from  *)
(* a record is a tagged record [t, v]: t is "absent" (the key is not in    *)
(* the dict), "none" (None), "str", "num" (int/float, v its str()), "dec"   *)
(* (Decimal, v its str()), "dict" (v the <<key, value>> pairs in insertion *)
(* order) or "list" (v the items).                                         *)
(***************************************************************************)
EXTENDS Integers, Sequences, FiniteSets, TLC

\* ------------------------------------------------------------------ text

Absent == [t |-> "absent", v |-> <<>>]
None == [t |-> "none", v |-> <<>>]
Str(s) == [t |-> "str", v |-> s]
Num(s) == [t |-> "num", v |-> s]
Dcm(s) == [t |-> "dec", v |-> s]
Dict(pairs) == [t |-> "dict", v |-> pairs]
List(items) == [t |-> "list", v |-> items]

Range(s) == {s[i] : i \in DOMAIN s}

RECURSIVE SeqSum(_)
SeqSum(s) == IF s = <<>> THEN 0 ELSE Head(s) + SeqSum(Tail(s))

RECURSIVE Flatten(_)
Flatten(ss) == IF ss = <<>> THEN <<>> ELSE Head(ss) \o Flatten(Tail(ss))

Min2(a, b) == IF a <= b THEN a ELSE b

\* dict.get(key, default): the default only replaces a key that is not there
Get(pv, default) == IF pv.t = "absent" THEN default ELSE pv

\* Python truthiness of a value: None, "", 0 and a missing key are falsy
IsZeroText(s) == s # <<>> /\ \A i \in DOMAIN s : s[i] \in {"0", "."}
Truthy(pv) ==
    CASE pv.t = "str" -> pv.v # <<>>
      [] pv.t = "num" -> ~IsZeroText(pv.v)
      [] OTHER -> FALSE

\* a or b
Or(a, b) == IF Truthy(a) THEN a ELSE b

\* str(x): the text of a value; str(None) is "None"
PyStr(pv) ==
    CASE pv.t \in {"str", "num", "dec"} -> pv.v
      [] OTHER -> <<"N", "o", "n", "e">>

\* the cased letters of the texts
Lowers == <<"a", "b", "c", "d", "e", "f", "g", "h", "i", "j", "k", "l", "m", "n",
            "o", "p", "q", "r", "s", "t", "u", "v", "w", "x", "y", "z",
            "á", "é", "í", "ó", "ú", "ñ">>
Uppers == <<"A", "B", "C", "D", "E", "F", "G", "H", "I", "J", "K", "L", "M", "N",
            "O", "P", "Q", "R", "S", "T", "U", "V", "W", "X", "Y", "Z",
            "Á", "É", "Í", "Ó", "Ú", "Ñ">>

UpperChar(c) ==
    IF c \in Range(Lowers) THEN Uppers[CHOOSE i \in DOMAIN Lowers : Lowers[i] = c] ELSE c

\* str.upper()
Upper(s) == [i \in DOMAIN s |-> UpperChar(s[i])]

IsSpace(c) == c \in {" ", "\t", "\n"}

\* str.strip()
RECURSIVE LStrip(_)
LStrip(s) == IF s # <<>> /\ IsSpace(Head(s)) THEN LStrip(Tail(s)) ELSE s

RECURSIVE RStrip(_)
RStrip(s) ==
    IF s # <<>> /\ IsSpace(s[Len(s)]) THEN RStrip(SubSeq(s, 1, Len(s) - 1)) ELSE s

Strip(s) == RStrip(LStrip(s))

\* the text without the characters of a set (str.replace(c, ''), re.sub to '')
RECURSIVE Remove(_, _)
Remove(s, cs) ==
    IF s = <<>> THEN <<>>
    ELSE IF Head(s) \in cs THEN Remove(Tail(s), cs)
    ELSE <<Head(s)>> \o Remove(Tail(s), cs)

\* str.replace(old, new) for single characters
ReplaceChar(s, old, new) == [i \in DOMAIN s |-> IF s[i] = old THEN new ELSE s[i]]

Contains(s, c) == \E i \in DOMAIN s : s[i] = c

\* s[:n]
Prefix(s, n) == SubSeq(s, 1, Min2(n, Len(s)))

\* ------------------------------------------------- difflib.SequenceMatcher

\* length of the common run of a from i and b from j, inside a[..ahi], b[..bhi]
RECURSIVE RunLen(_, _, _, _, _, _)
RunLen(a, b, i, j, ahi, bhi) ==
    IF i > ahi \/ j > bhi \/ a[i] # b[j] THEN 0
    ELSE 1 + RunLen(a, b, i + 1, j + 1, ahi, bhi)

\* the common runs <<i, j, length>> inside a[alo..ahi], b[blo..bhi]
Runs(a, b, alo, ahi, blo, bhi) ==
    {<<p[1], p[2], RunLen(a, b, p[1], p[2], ahi, bhi)>> :
        p \in {q \in (alo..ahi) \X (blo..bhi) : a[q[1]] = b[q[2]]}}

\* the longest run, the earliest in a, then in b
Best(runs) ==
    CHOOSE r \in runs :
        \A q \in runs :
            \/ q[3] < r[3]
            \/ q[3] = r[3] /\ (r[1] < q[1] \/ (r[1] = q[1] /\ r[2] <= q[2]))

\* find_longest_match
FindLongestMatch(a, b, alo, ahi, blo, bhi) ==
    \* an empty set of runs: no element of a[alo..ahi] is in b[blo..bhi]
    IF \A i \in alo..ahi, j \in blo..bhi : a[i] # b[j] THEN <<alo, blo, 0>>
    ELSE Best(Runs(a, b, alo, ahi, blo, bhi))

\* the sum of the sizes of get_matching_blocks over a[alo..ahi], b[blo..bhi]
RECURSIVE MatchingBlocks(_, _, _, _, _, _)
MatchingBlocks(a, b, alo, ahi, blo, bhi) ==
    IF alo > ahi \/ blo > bhi THEN 0
    ELSE LET m == FindLongestMatch(a, b, alo, ahi, blo, bhi)
         IN IF m[3] = 0 THEN 0
            ELSE m[3]
                 + MatchingBlocks(a, b, alo, m[1] - 1, blo, m[2] - 1)
                 + MatchingBlocks(a, b, m[1] + m[3], ahi, m[2] + m[3], bhi)

\* SequenceMatcher(None, a, b).ratio() >= num/den, in exact arithmetic
RatioAtLeast(a, b, num, den) ==
    LET total == Len(a) + Len(b)
        matches == MatchingBlocks(a, b, 1, Len(a), 1, Len(b))
    IN IF total = 0 THEN TRUE
       ELSE 2 * matches * den >= num * total

\* ------------------------------------------------------------ normalizers

\* normalize_catastral_ref
normalize_catastral_ref(ref) ==
    IF ~Truthy(ref) THEN <<>>
    ELSE Remove(Strip(Upper(PyStr(ref))), {" ", "\t", "\n", "-"})

SignificantPrefix == 14

\* the match without the partial match on the first characters
fuzzy_match_catastral_by_ratio(ref1, ref2) ==
    IF ref1 = <<>> \/ ref2 = <<>> THEN FALSE
    ELSE LET norm1 == normalize_catastral_ref(Str(ref1))
             norm2 == normalize_catastral_ref(Str(ref2))
         IN IF norm1 = norm2 THEN TRUE
            ELSE IF norm1 = <<>> \/ norm2 = <<>> THEN FALSE
            ELSE RatioAtLeast(norm1, norm2, 85, 100)

\* fuzzy_match_catastral(ref1, ref2) with the default threshold 0.85; the
\* callers pass normalized text
fuzzy_match_catastral(ref1, ref2) ==
    IF ref1 = <<>> \/ ref2 = <<>> THEN FALSE
    ELSE LET norm1 == normalize_catastral_ref(Str(ref1))
             norm2 == normalize_catastral_ref(Str(ref2))
         IN IF norm1 = norm2 THEN TRUE
            ELSE IF norm1 = <<>> \/ norm2 = <<>> THEN FALSE
            ELSE IF RatioAtLeast(norm1, norm2, 85, 100) THEN TRUE
            ELSE /\ Min2(Len(norm1), Len(norm2)) >= SignificantPrefix
                 /\ Prefix(norm1, SignificantPrefix) = Prefix(norm2, SignificantPrefix)

\* normalize_nif
normalize_nif(nif) ==
    IF ~Truthy(nif) THEN <<>>
    ELSE Remove(Strip(Upper(nif.v)), {"-", " "})

\* collapse every run of whitespace to one space (re.sub(r'\s+', ' ', s))
RECURSIVE CollapseSpaces(_)
CollapseSpaces(s) ==
    IF s = <<>> THEN <<>>
    ELSE IF IsSpace(Head(s))
         THEN <<" ">> \o CollapseSpaces(LStrip(s))
         ELSE <<Head(s)>> \o CollapseSpaces(Tail(s))

\* normalize_text
normalize_text(text) ==
    IF ~Truthy(text) THEN <<>>
    ELSE CollapseSpaces(Strip(Upper(PyStr(text))))

\* ---------------------------------------------------------------- decimals

Digits == <<"0", "1", "2", "3", "4", "5", "6", "7", "8", "9">>

IsDigit(c) == c \in Range(Digits)

DigitVal(c) == (CHOOSE d \in DOMAIN Digits : Digits[d] = c) - 1

RECURSIVE ParseDigits(_)
ParseDigits(s) ==
    IF s = <<>> THEN 0
    ELSE 10 * ParseDigits(SubSeq(s, 1, Len(s) - 1)) + DigitVal(s[Len(s)])

RECURSIVE Pow10(_)
Pow10(n) == IF n <= 0 THEN 1 ELSE 10 * Pow10(n - 1)

Abs(n) == IF n < 0 THEN -n ELSE n

Max2(a, b) == IF a >= b THEN a ELSE b

\* a Decimal: k is "num" (the number m / 10^e), "nan", "inf" (m its sign)
\* or "none" (no Decimal: parse_decimal returned None)
NoDecimal == [k |-> "none", m |-> 0, e |-> 0]
Dec(m, e) == [k |-> "num", m |-> m, e |-> e]

\* Decimal(text) for text over digits, sign, dot and the special names; a
\* text it rejects (decimal.InvalidOperation) gives NoDecimal
DecimalOf(text) ==
    LET signed == text # <<>> /\ text[1] \in {"+", "-"}
        sign == IF signed /\ text[1] = "-" THEN -1 ELSE 1
        body == IF signed THEN Tail(text) ELSE text
        up == Upper(body)
        dots == {i \in DOMAIN body : body[i] = "."}
        digits == Remove(body, {"."})
    IN IF up = <<"N", "A", "N">> THEN [k |-> "nan", m |-> sign, e |-> 0]
       ELSE IF up \in {<<"I", "N", "F">>, <<"I", "N", "F", "I", "N", "I", "T", "Y">>}
            THEN [k |-> "inf", m |-> sign, e |-> 0]
       ELSE IF /\ digits # <<>>
               /\ \A i \in DOMAIN digits : IsDigit(digits[i])
               /\ Cardinality(dots) <= 1
            THEN Dec(sign * ParseDigits(digits),
                     IF dots = {} THEN 0 ELSE Len(body) - (CHOOSE i \in dots : TRUE))
       ELSE NoDecimal

\* parse_decimal
parse_decimal(val) ==
    IF val.t \in {"none", "absent"} \/ (val.t = "str" /\ val.v = <<>>) THEN NoDecimal
    ELSE LET val_str == Strip(PyStr(val))
             spanish == IF Contains(val_str, ",") /\ Contains(val_str, ".")
                        THEN ReplaceChar(Remove(val_str, {"."}), ",", ".")
                        ELSE IF Contains(val_str, ",")
                        THEN ReplaceChar(val_str, ",", ".")
                        ELSE val_str
         IN DecimalOf(spanish)

\* d == 0 (false for NaN and the infinities, without signalling)
DecIsZero(d) == d.k = "num" /\ d.m = 0

\* bool(d): a Decimal is falsy only when it is zero; None is falsy
DecTruthy(d) == d.k # "none" /\ ~DecIsZero(d)

\* abs(d1 - d2) compared with tol: "le", "gt", or "raise" when the
\* subtraction or the ordering signals decimal.InvalidOperation
AbsDiffVs(d1, d2, tol) ==
    IF d1.k = "nan" \/ d2.k = "nan" THEN "raise"
    ELSE IF d1.k = "inf" /\ d2.k = "inf"
         THEN IF d1.m = d2.m THEN "raise" ELSE "gt"
    ELSE IF d1.k = "inf" \/ d2.k = "inf" THEN "gt"
    ELSE LET e == Max2(Max2(d1.e, d2.e), tol.e)
             a == d1.m * Pow10(e - d1.e)
             b == d2.m * Pow10(e - d2.e)
             t == tol.m * Pow10(e - tol.e)
         IN IF Abs(a - b) <= t THEN "le" ELSE "gt"

\* compare_decimals: "true", "false", or "raise"
compare_decimals(v1, v2, tolerance) ==
    LET d1 == parse_decimal(v1)
        d2 == parse_decimal(v2)
    IN IF d1.k = "none" \/ d2.k = "none" THEN "true"
       ELSE IF DecIsZero(d1) \/ DecIsZero(d2) THEN "true"
       ELSE LET c == AbsDiffVs(d1, d2, tolerance)
            IN CASE c = "le" -> "true"
                 [] c = "gt" -> "false"
                 [] OTHER -> "raise"

\* ------------------------------------------------------------------- dates

\* str.split(sep)
RECURSIVE Split(_, _)
Split(s, sep) ==
    IF ~Contains(s, sep) THEN <<s>>
    ELSE LET i == CHOOSE j \in DOMAIN s :
                      s[j] = sep /\ \A h \in 1..(j - 1) : s[h] # sep
         IN <<SubSeq(s, 1, i - 1)>> \o Split(SubSeq(s, i + 1, Len(s)), sep)

AllDigits(s) == s # <<>> /\ \A i \in DOMAIN s : IsDigit(s[i])

IsLeap(y) == (y % 4 = 0 /\ y % 100 # 0) \/ y % 400 = 0

DaysIn(m, y) ==
    CASE m \in {4, 6, 9, 11} -> 30
      [] m = 2 -> IF IsLeap(y) THEN 29 ELSE 28
      [] OTHER -> 31

\* the decimal text of n, zero-padded to a width
RECURSIVE IntText(_, _)
IntText(n, width) ==
    IF n < 10 /\ width <= 1 THEN <<Digits[n + 1]>>
    ELSE IntText(n \div 10, width - 1) \o <<Digits[(n % 10) + 1]>>

\* datetime.strptime(text, fmt).strftime('%Y-%m-%d') for a format of day,
\* month and year fields: the text, or <<>> where strptime raises ValueError
StrpDate(text, sep, yearFirst) ==
    LET parts == Split(text, sep)
    IN IF Len(parts) # 3 \/ \E i \in 1..3 : ~AllDigits(parts[i]) THEN <<>>
       ELSE LET yt == IF yearFirst THEN parts[1] ELSE parts[3]
                dt == IF yearFirst THEN parts[3] ELSE parts[1]
                mt == parts[2]
                y == ParseDigits(yt)
                m == ParseDigits(mt)
                d == ParseDigits(dt)
            IN IF /\ Len(yt) = 4 /\ Len(mt) <= 2 /\ Len(dt) <= 2
                  /\ y >= 1 /\ m \in 1..12 /\ d >= 1 /\ d <= DaysIn(m, y)
               THEN IntText(y, 1) \o <<"-">> \o IntText(m, 2) \o <<"-">> \o IntText(d, 2)
               ELSE <<>>

\* normalize_date
normalize_date(date_str) ==
    IF ~Truthy(date_str) THEN <<>>
    ELSE LET s == Strip(PyStr(date_str))
             f1 == StrpDate(s, "/", FALSE)
             f2 == StrpDate(s, "-", TRUE)
             f3 == StrpDate(s, "-", FALSE)
             f4 == StrpDate(s, ".", FALSE)
         IN IF f1 # <<>> THEN f1
            ELSE IF f2 # <<>> THEN f2
            ELSE IF f3 # <<>> THEN f3
            ELSE IF f4 # <<>> THEN f4
            ELSE s

\* ------------------------------------------------------ records and issues

\* the keys a property dict may hold; a key that is not there reads Absent
BaseProp ==
    [id |-> Absent, ref_catastral |-> Absent, declared_value |-> Absent,
     address |-> Absent, direccion |-> Absent, type |-> Absent, uso |-> Absent,
     property_type |-> Absent, surface_area |-> Absent, superficie |-> Absent,
     superficie_construida |-> Absent, superficie_util |-> Absent,
     valor_catastral |-> Absent,
     ownership_distribution |-> [t |-> "absent", d |-> <<>>]]

\* the keys a deed or tax-form dict may hold
BaseRecord ==
    [document_number |-> Absent, date_of_sale |-> Absent, sellers |-> <<>>,
     buyers |-> <<>>, notary |-> [t |-> "absent", name |-> Absent],
     notary_name |-> Absent, protocol_number |-> Absent, properties |-> <<>>,
     sale_breakdown |-> <<>>]

Person(nif) == [seller_nif |-> Absent, buyer_nif |-> Absent, nif |-> nif]

\* a field name or a message: the literal part and the interpolated text
F(name) == [fmt |-> name, arg |-> <<>>]
FArg(name, arg) == [fmt |-> name, arg |-> arg]

\* Issue(code, severity, field, escritura_value, tax_form_value, message, form_id)
Issue(code, severity, field, escritura_value, tax_form_value, message, form_id) ==
    [code |-> code, severity |-> severity, field |-> field,
     escritura_value |-> escritura_value, tax_form_value |-> tax_form_value,
     message |-> message, form_id |-> form_id]

\* PropertyComparisonReport(property_id, ref_catastral)
PropertyComparisonReport(property_id, ref_catastral) ==
    [property_id |-> property_id, ref_catastral |-> ref_catastral,
     status |-> "ok", matched_forms |-> <<>>, issues |-> <<>>]

\* str() of an issue value: a list value carries its repr as its text
IssueText(pv) == IF pv.t = "list" THEN pv.v ELSE PyStr(pv)

\* add_issue with the status assigned from the new issue alone
add_issue_assign(rep, issue) ==
    [rep EXCEPT
        !.issues = Append(@,
            [code |-> issue.code, severity |-> issue.severity,
             field |-> issue.field,
             escritura_value |-> IssueText(issue.escritura_value),
             tax_form_value |-> IssueText(issue.tax_form_value),
             message |-> issue.message, form_id |-> issue.form_id]),
        !.status = issue.severity]

\* PropertyComparisonReport.add_issue
add_issue(rep, issue) ==
    [rep EXCEPT
        !.issues = Append(@,
            [code |-> issue.code, severity |-> issue.severity,
             field |-> issue.field,
             escritura_value |-> IssueText(issue.escritura_value),
             tax_form_value |-> IssueText(issue.tax_form_value),
             message |-> issue.message, form_id |-> issue.form_id]),
        !.status = IF issue.severity = "error" THEN "error"
                   ELSE IF issue.severity = "warning" /\ @ = "ok" THEN "warning"
                   ELSE @]

RECURSIVE add_issues(_, _)
add_issues(rep, issues) ==
    IF issues = <<>> THEN rep
    ELSE add_issues(add_issue(rep, Head(issues)), Tail(issues))

\* the iteration orders a set of texts may have (fixed by the string hashes
\* of the process)
Orders(S) == {p \in [1..Cardinality(S) -> S] : Range(p) = S}

\* the elements of S in the order ord gives them
InOrder(S, ord) == LET in(x) == x \in S IN SelectSeq(ord, in)

RECURSIVE JoinQuoted(_)
JoinQuoted(ts) ==
    IF ts = <<>> THEN <<>>
    ELSE <<"'">> \o Head(ts) \o <<"'">>
         \o (IF Len(ts) > 1 THEN <<",", " ">> ELSE <<>>) \o JoinQuoted(Tail(ts))

\* list(S) as an issue value, and str(S) of a non-empty set
ListValue(ts) == [t |-> "list", v |-> <<"[">> \o JoinQuoted(ts) \o <<"]">>]
SetRepr(ts) == <<"{">> \o JoinQuoted(ts) \o <<"}">>

\* str(d) of a Decimal
DecText(d) ==
    CASE d.k = "nan" -> (IF d.m < 0 THEN <<"-">> ELSE <<>>) \o <<"N", "a", "N">>
      [] d.k = "inf" -> (IF d.m < 0 THEN <<"-">> ELSE <<>>)
                        \o <<"I", "n", "f", "i", "n", "i", "t", "y">>
      [] d.k = "num" ->
            LET ds == IntText(Abs(d.m), d.e + 1)
                n == Len(ds)
            IN (IF d.m < 0 THEN <<"-">> ELSE <<>>)
               \o SubSeq(ds, 1, n - d.e)
               \o (IF d.e > 0 THEN <<".">> \o SubSeq(ds, n - d.e + 1, n) ELSE <<>>)
      [] OTHER -> <<"N", "o", "n", "e">>

\* what a rule did: the issues it added, or the exception it raised
NoRaise(issues) == [raise |-> "none", issues |-> issues]
Raise(exc) == [raise |-> exc, issues |-> <<>>]

\* the rules in order: the issues up to the first rule that raises
RECURSIVE RunRules(_)
RunRules(rs) ==
    IF rs = <<>> THEN NoRaise(<<>>)
    ELSE IF Head(rs).raise # "none" THEN Head(rs)
    ELSE LET rest == RunRules(Tail(rs))
         IN [raise |-> rest.raise, issues |-> Head(rs).issues \o rest.issues]

\* ------------------------------------------------------- the field rules
\* compare_escritura_with_tax_forms, the body of "for match in matches":
\* escritura and form are the parent records, prop and tax_prop the two
\* properties, fid the form id

\* Date comparison with normalization
DateRule(escritura, form, fid) ==
    LET e_raw == Get(escritura.date_of_sale, None)
        t_raw == Get(form.date_of_sale, None)
        e_date == normalize_date(e_raw)
        t_date == normalize_date(t_raw)
    IN IF e_date # <<>> /\ t_date # <<>> /\ e_date # t_date
       THEN NoRaise(<<Issue("DATE_MISMATCH", "error", F("date_of_sale"),
                            e_raw, t_raw, F("Date mismatch"), Str(fid))>>)
       ELSE NoRaise(<<>>)

\* a compare_decimals rule: one issue when the comparison says "false"
DecimalRule(code, severity, field, e_val, t_val, tolerance, message, fid) ==
    LET c == compare_decimals(e_val, t_val, tolerance)
    IN CASE c = "raise" -> Raise("InvalidOperation")
         [] c = "false" ->
                NoRaise(<<Issue(code, severity, field, Get(e_val, None),
                                Get(t_val, None), message, Str(fid))>>)
         [] OTHER -> NoRaise(<<>>)

\* Declared value
DeclaredValueRule(prop, tax_prop, fid) ==
    DecimalRule("VALUE_MISMATCH", "error", F("declared_value"),
                prop.declared_value, tax_prop.declared_value, Dec(1, 2),
                F("Declared value mismatch"), fid)

\* {normalize_nif(s.get(key) or s.get('nif')) for s in persons}
NifSet(persons, key) ==
    {normalize_nif(Or(Get(persons[i][key], None), Get(persons[i].nif, None))) :
        i \in DOMAIN persons}

\* the party rule with one issue for each missing ID
PartyRulePerId(code, field, key, label, e_persons, t_persons, fid, ord) ==
    LET e_set == NifSet(e_persons, key)
        t_set == NifSet(t_persons, key)
        missing == InOrder((e_set \ t_set) \ {<<>>}, ord)
    IN NoRaise([i \in DOMAIN missing |->
                  Issue(code, "error", F(field),
                        ListValue(InOrder(e_set, ord)),
                        ListValue(InOrder(t_set, ord)),
                        FArg(label, SetRepr(<<missing[i]>>)),
                        Str(fid))])

\* the party rule shared by Sellers and Buyers
PartyRule(code, field, key, label, e_persons, t_persons, fid, ord) ==
    LET e_set == NifSet(e_persons, key)
        t_set == NifSet(t_persons, key)
        missing == (e_set \ t_set) \ {<<>>}
    IN IF missing # {}
       THEN NoRaise(<<Issue(code, "error", F(field),
                            ListValue(InOrder(e_set, ord)),
                            ListValue(InOrder(t_set, ord)),
                            FArg(label, SetRepr(InOrder(missing, ord))),
                            Str(fid))>>)
       ELSE NoRaise(<<>>)

\* Sellers
SellersRule(escritura, form, fid, ord) ==
    PartyRule("SELLER_MISMATCH", "sellers", "seller_nif", "Missing sellers: ",
              escritura.sellers, form.sellers, fid, ord)

\* Buyers
BuyersRule(escritura, form, fid, ord) ==
    PartyRule("BUYER_MISMATCH", "buyers", "buyer_nif", "Missing buyers: ",
              escritura.buyers, form.buyers, fid, ord)

\* record.get('notary', {}).get('name'): only a dict (or a missing key) has
\* a .get
NotaryHasGet(record) == record.notary.t \in {"absent", "dict"}
NotaryName(record) ==
    IF record.notary.t = "dict" THEN Get(record.notary.name, None) ELSE None

\* Notary info
NotaryRule(escritura, form, fid) ==
    IF ~NotaryHasGet(escritura) \/ ~NotaryHasGet(form) THEN Raise("AttributeError")
    ELSE LET e_notary_raw == Or(NotaryName(escritura), Get(escritura.notary_name, None))
             t_notary_raw == Or(NotaryName(form), Get(form.notary_name, None))
             e_notary == normalize_text(e_notary_raw)
             t_notary == normalize_text(t_notary_raw)
         IN IF e_notary # <<>> /\ t_notary # <<>> /\ e_notary # t_notary
            THEN NoRaise(<<Issue("NOTARY_MISMATCH", "warning", F("notary_name"),
                                 e_notary_raw, t_notary_raw,
                                 F("Notary name mismatch"), Str(fid))>>)
            ELSE NoRaise(<<>>)

\* Protocol number: str(record.get('protocol_number', ''))
ProtocolRule(escritura, form, fid) ==
    LET e_proto == normalize_text(Str(PyStr(Get(escritura.protocol_number, Str(<<>>)))))
        t_proto == normalize_text(Str(PyStr(Get(form.protocol_number, Str(<<>>)))))
    IN IF e_proto # <<>> /\ t_proto # <<>> /\ e_proto # t_proto
       THEN NoRaise(<<Issue("PROTOCOL_MISMATCH", "error", F("protocol_number"),
                            Get(escritura.protocol_number, None),
                            Get(form.protocol_number, None),
                            F("Protocol number mismatch"), Str(fid))>>)
       ELSE NoRaise(<<>>)

\* Address
AddressRule(prop, tax_prop, fid) ==
    LET e_addr == normalize_text(Or(Get(prop.address, None), Get(prop.direccion, None)))
        t_addr == normalize_text(Or(Get(tax_prop.address, None),
                                    Get(tax_prop.direccion, None)))
    IN IF /\ e_addr # <<>> /\ t_addr # <<>> /\ e_addr # t_addr
          /\ ~RatioAtLeast(e_addr, t_addr, 8, 10)
       THEN NoRaise(<<Issue("ADDRESS_MISMATCH", "warning", F("address"),
                            Get(prop.address, None), Get(tax_prop.address, None),
                            F("Address mismatch"), Str(fid))>>)
       ELSE NoRaise(<<>>)

\* Property type/uso
TypeRule(prop, tax_prop, fid) ==
    LET e_type == normalize_text(Or(Get(prop.type, None), Get(prop.uso, None)))
        t_type == normalize_text(Or(Get(tax_prop.type, None), Get(tax_prop.uso, None)))
    IN IF e_type # <<>> /\ t_type # <<>> /\ e_type # t_type
       THEN NoRaise(<<Issue("TYPE_MISMATCH", "warning", F("type"),
                            Get(prop.type, None), Get(tax_prop.type, None),
                            F("Property type mismatch"), Str(fid))>>)
       ELSE NoRaise(<<>>)

\* Property type code (600U, 600R, etc)
PropertyTypeCodeRule(prop, tax_prop, fid) ==
    LET e_ptype == Get(prop.property_type, None)
        t_ptype == Get(tax_prop.property_type, None)
    IN IF Truthy(e_ptype) /\ Truthy(t_ptype) /\ PyStr(e_ptype) # PyStr(t_ptype)
       THEN NoRaise(<<Issue("TYPE_MISMATCH", "error", F("property_type"),
                            e_ptype, t_ptype,
                            F("Property type code mismatch"), Str(fid))>>)
       ELSE NoRaise(<<>>)

SuperficieKeys ==
    <<"surface_area", "superficie", "superficie_construida", "superficie_util">>

\* Superficie (any of the variants): the loop from the variant at position k
RECURSIVE SuperficieFrom(_, _, _, _)
SuperficieFrom(k, prop, tax_prop, fid) ==
    IF k > Len(SuperficieKeys) THEN NoRaise(<<>>)
    ELSE LET sup_key == SuperficieKeys[k]
             e_sup == Get(prop[sup_key], None)
             t_sup == Get(tax_prop[sup_key], None)
             c == IF Truthy(e_sup) /\ Truthy(t_sup)
                  THEN compare_decimals(e_sup, t_sup, Dec(1, 0))
                  ELSE "true"
         IN CASE c = "raise" -> Raise("InvalidOperation")
              [] c = "false" ->
                    NoRaise(<<Issue("SUPERFICIE_MISMATCH", "warning", F(sup_key),
                                    e_sup, t_sup, FArg("{sup_key} mismatch", <<sup_key>>),
                                    Str(fid))>>)
              [] OTHER -> SuperficieFrom(k + 1, prop, tax_prop, fid)

SuperficieRule(prop, tax_prop, fid) == SuperficieFrom(1, prop, tax_prop, fid)

\* Valor catastral
ValorCatastralRule(prop, tax_prop, fid) ==
    DecimalRule("VALOR_CATASTRAL_MISMATCH", "warning", F("valor_catastral"),
                prop.valor_catastral, tax_prop.valor_catastral, Dec(1, 2),
                F("Cadastral value mismatch"), fid)

\* dict.get(nif) on an ownership map, a sequence of [nif, pct] entries
DistGet(dist, nif) ==
    IF \E i \in DOMAIN dist : dist[i].nif = nif
    THEN dist[CHOOSE i \in DOMAIN dist : dist[i].nif = nif].pct
    ELSE None

\* Cuota/participacion: the loop over e_dist.items() from position k
RECURSIVE CuotaFrom(_, _, _, _)
CuotaFrom(k, e_dist, t_dist, fid) ==
    IF k > Len(e_dist) THEN NoRaise(<<>>)
    ELSE LET nif == e_dist[k].nif
             e_pct == e_dist[k].pct
             t_pct == DistGet(t_dist, nif)
             c == IF t_pct.t # "none" THEN compare_decimals(e_pct, t_pct, Dec(1, 1))
                  ELSE "true"
         IN IF c = "raise" THEN Raise("InvalidOperation")
            ELSE RunRules(<<
                    NoRaise(IF c = "false"
                            THEN <<Issue("CUOTA_MISMATCH", "error",
                                         FArg("ownership_", nif), e_pct, t_pct,
                                         FArg("Ownership share mismatch for ", nif),
                                         Str(fid))>>
                            ELSE <<>>),
                    CuotaFrom(k + 1, e_dist, t_dist, fid)>>)

CuotaRule(prop, tax_prop, fid) ==
    LET e_dist == prop.ownership_distribution
        t_dist == tax_prop.ownership_distribution
    IN IF e_dist.t = "dict" /\ e_dist.d # <<>> /\ t_dist.t = "dict" /\ t_dist.d # <<>>
       THEN CuotaFrom(1, e_dist.d, t_dist.d, fid)
       ELSE NoRaise(<<>>)

\* Document number mismatch (escritura vs tax form)
DocumentNumberRule(escritura, form, fid) ==
    LET e_docnum == Get(escritura.document_number, None)
        t_docnum == Get(form.document_number, None)
    IN IF Truthy(e_docnum) /\ Truthy(t_docnum) /\ PyStr(e_docnum) # PyStr(t_docnum)
       THEN NoRaise(<<Issue("DOCUMENT_NUMBER_MISMATCH", "warning",
                            F("document_number"), e_docnum, t_docnum,
                            F("Document numbers differ between escritura and tax form"),
                            Str(fid))>>)
       ELSE NoRaise(<<>>)

\* the entries of a sale_breakdown that are about prop_id
ForProperty(breakdown, prop_id) ==
    LET about(s) == Get(s.property_id, None) = prop_id
    IN SelectSeq(breakdown, about)

\* {s['seller_nif']: parse_decimal(s.get('percentage_sold')) for s in ...}:
\* the keys in first-insertion order, each with the value of its last entry
BySellerKeys(entries) ==
    LET first(i) == \A h \in 1..(i - 1) : entries[h].seller_nif # entries[i].seller_nif
        idx == {i \in DOMAIN entries : first(i)}
        nth(k) == CHOOSE i \in idx : Cardinality({h \in idx : h < i}) = k - 1
    IN [k \in 1..Cardinality(idx) |-> entries[nth(k)].seller_nif]

BySellerGet(entries, seller) ==
    LET idx == {i \in DOMAIN entries : entries[i].seller_nif = seller}
    IN IF idx = {} THEN NoDecimal
       ELSE parse_decimal(entries[CHOOSE i \in idx : \A h \in idx : h <= i].percentage_sold)

\* the loop over e_by_seller.items() from position k
RECURSIVE SaleBreakdownFrom(_, _, _, _, _)
SaleBreakdownFrom(k, keys, e_entries, t_entries, fid) ==
    IF k > Len(keys) THEN NoRaise(<<>>)
    ELSE LET seller == keys[k]
             e_pct == BySellerGet(e_entries, seller)
             t_pct == BySellerGet(t_entries, seller)
             c == IF DecTruthy(e_pct) /\ DecTruthy(t_pct)
                  THEN AbsDiffVs(e_pct, t_pct, Dec(1, 1))
                  ELSE "le"
         IN IF c = "raise" THEN Raise("InvalidOperation")
            ELSE RunRules(<<
                    NoRaise(IF c = "gt"
                            THEN <<Issue("SALE_BREAKDOWN_MISMATCH", "error",
                                         FArg("sale_pct_", PyStr(seller)),
                                         Str(DecText(e_pct)), Str(DecText(t_pct)),
                                         FArg("Sale percentage mismatch for seller ",
                                              PyStr(seller)),
                                         Str(fid))>>
                            ELSE <<>>),
                    SaleBreakdownFrom(k + 1, keys, e_entries, t_entries, fid)>>)

\* Sale breakdown comparison
SaleBreakdownRule(escritura, form, prop, fid) ==
    LET prop_id == Get(prop.id, None)
        e_entries == ForProperty(escritura.sale_breakdown, prop_id)
        t_entries == ForProperty(form.sale_breakdown, prop_id)
        keyless(es) == \E i \in DOMAIN es : es[i].seller_nif.t = "absent"
    IN IF ~Truthy(prop_id) THEN NoRaise(<<>>)
       ELSE IF keyless(e_entries) \/ keyless(t_entries) THEN Raise("KeyError")
       ELSE SaleBreakdownFrom(1, BySellerKeys(e_entries), e_entries, t_entries, fid)

\* every rule applied to one match, in the order of the code
CompareRules(escritura, form, prop, tax_prop, fid, ord) ==
    RunRules(<<
        DateRule(escritura, form, fid),
        DeclaredValueRule(prop, tax_prop, fid),
        SellersRule(escritura, form, fid, ord),
        BuyersRule(escritura, form, fid, ord),
        NotaryRule(escritura, form, fid),
        ProtocolRule(escritura, form, fid),
        AddressRule(prop, tax_prop, fid),
        TypeRule(prop, tax_prop, fid),
        PropertyTypeCodeRule(prop, tax_prop, fid),
        SuperficieRule(prop, tax_prop, fid),
        ValorCatastralRule(prop, tax_prop, fid),
        CuotaRule(prop, tax_prop, fid),
        DocumentNumberRule(escritura, form, fid),
        SaleBreakdownRule(escritura, form, prop, fid)>>)

\* ------------------------------------------------------------ the inputs

RefA == <<"1", "2", "3", "4", "5", "6", "7", "V", "K", "1", "2", "3", "4", "S", "0", "0", "0", "1", "A", "B">>
RefARaw == <<"1", "2", "3", "4", "5", "6", "7", "v", "k", "1", "2", "3", "4", "s", " ", "0", "0", "0", "1", "-", "a", "b">>
RefAC == <<"1", "2", "3", "4", "5", "6", "7", "V", "K", "1", "2", "3", "4", "S", "0", "0", "0", "1", "A", "C">>
RefAD == <<"1", "2", "3", "4", "5", "6", "7", "V", "K", "1", "2", "3", "4", "S", "0", "0", "0", "1", "A", "D">>
RefX == <<"9", "8", "7", "6", "5", "4", "3", "Z", "Z", "0", "0", "0", "0", "Q">>
RefATrunc == <<"1", "2", "3", "4", "5", "6", "7", "V", "K", "1", "2", "3", "4", "S">>

NifA == <<"1", "2", "3", "4", "5", "6", "7", "8", "Z">>
NifARaw == <<"1", "2", "3", "4", "5", "6", "7", "8", "-", "z">>
NifB == <<"8", "7", "6", "5", "4", "3", "2", "1", "X">>
NifC == <<"X", "1", "2", "3", "4", "5", "6", "7", "L">>

DocDeed == <<"1", "0", "0", "0">>
DocForm == <<"2", "0", "0", "0">>
SaleDate == <<"1", "0", "-", "0", "2", "-", "2", "0", "2", "5">>
NotaryText == <<"A", "N", "A", " ", "R", "U", "I", "Z">>
NotaryLower == <<"A", "n", "a", " ", " ", "R", "u", "i", "z">>
NotaryOther == <<"L", "U", "I", "S", " ", "S", "A", "N", "Z">>
NotaryAccent == <<"A", "n", "a", " ", "R", "ú", "i", "z">>

MaxDeedProps == 2
MaxTaxProps == 2
MaxSellers == 2

\* the sequences over S of a length from lo to hi
SeqsBetween(S, lo, hi) == UNION {[1..n -> S] : n \in lo..hi}

DeedRefPool == {Str(RefARaw), Str(RefAC), None}
TaxRefPool == {Str(RefA), Str(RefAD), Str(RefX), Absent}

\* ------------------------------------------- compare_escritura_with_tax_forms

VARIABLES
    data,               \* the argument: [escrituras, tax_forms]
    pc,                 \* where the call is
    tax_by_catastral,   \* the index, in insertion order: <<[ref, items]>>
    matched_refs,       \* the set matched_refs
    reports,            \* the list the call returns
    report,             \* the report of the deed property being compared
    matches,            \* the match group of that property
    cursor,             \* [k, m, o]: deed property, match and index key reached
    fuzzy_log,          \* the logger.info lines of the fuzzy fallback
    error,              \* the exception that left the call, or "none"
    model,              \* the model class the merge is given
    chunk_results,      \* the chunk extractions the merge is given
    merged_dict,        \* merged_dict of the merge
    result,             \* what the merge returned
    ocr_results,        \* the OCR results map_llm_extraction is given
    partial_extractions, \* the list map_llm_extraction builds
    chunk,              \* how many OCR results its loop has gone through
    received,           \* what reduce_merge_extractions was given
    pdf_path,           \* the path run_escritura_pipeline is given
    calls,              \* the calls of the injected functions: <<[fn, arg]>>
    ocr_text,           \* what the OCR function returned
    extracted,          \* what the LLM function returned
    validation,         \* what the validation function returned
    response,           \* what run_escritura_pipeline returned
    store,              \* the Redis keys of the cache: key -> stored text or NoEntry
    enabled,            \* cache.enabled
    wrapper,            \* the locals of the cached_step wrapper call in progress
    extraction,         \* the locals of the extraction call in progress
    session             \* st.session_state of the review application

compareVars ==
    <<data, tax_by_catastral, matched_refs, reports, report, matches, cursor, fuzzy_log>>

mergeVars == <<model, chunk_results, merged_dict, result>>

flowVars ==
    <<ocr_results, partial_extractions, chunk, received, pdf_path, calls, ocr_text,
      extracted, validation, response>>

stepVars == <<store, enabled, wrapper, extraction, session>>

vars == <<compareVars, pc, error, mergeVars, flowVars, stepVars>>

\* no cached step, no extraction and no page of the application is running
NoStep ==
    /\ store = <<>>
    /\ enabled = FALSE
    /\ wrapper = <<>>
    /\ extraction = <<>>
    /\ session = <<>>

\* no merge is running
NoResult == [kind |-> "none", fields |-> None]
NoMerge ==
    /\ model = "none"
    /\ chunk_results = <<>>
    /\ merged_dict = Dict(<<>>)
    /\ result = NoResult

\* no pipeline is running
NoValue == [kind |-> "none", fields |-> <<>>]
NoResponse ==
    [ocr_text |-> NoValue, extracted |-> NoValue, validation |-> NoValue,
     meta |-> [ocr_cached |-> FALSE, llm_cached |-> FALSE,
               timings |-> [ocr |-> 0, llm |-> 0, validation |-> 0]]]
NoFlow ==
    /\ ocr_results = <<>>
    /\ partial_extractions = <<>>
    /\ chunk = 0
    /\ received = <<>>
    /\ pdf_path = <<>>
    /\ calls = <<>>
    /\ ocr_text = NoValue
    /\ extracted = NoValue
    /\ validation = NoValue
    /\ response = NoResponse

\* form.get('document_number') or f"form_{form_idx}"
FormId(form, form_idx) ==
    LET doc == Get(form.document_number, None)
    IN IF Truthy(doc) THEN PyStr(doc)
       ELSE <<"f", "o", "r", "m", "_">> \o IntText(form_idx, 1)

\* Flatten tax form properties: one item per property of each form, in order
FormItems(tax_forms, f) ==
    [p \in DOMAIN tax_forms[f].properties |->
        [form_id |-> FormId(tax_forms[f], f - 1), form |-> f, property |-> p]]

TaxProperties(tax_forms) ==
    Flatten([f \in DOMAIN tax_forms |-> FormItems(tax_forms, f)])

ItemProperty(d, item) == d.tax_forms[item.form].properties[item.property]

\* Group tax properties by catastral ref: items[1..n] added to the index
RECURSIVE GroupByCatastral(_, _, _)
GroupByCatastral(d, items, n) ==
    IF n = 0 THEN <<>>
    ELSE LET before == GroupByCatastral(d, items, n - 1)
             item == items[n]
             ref == normalize_catastral_ref(
                        Get(ItemProperty(d, item).ref_catastral, Str(<<>>)))
         IN IF ref = <<>> THEN before
            ELSE IF \E g \in DOMAIN before : before[g].ref = ref
                 THEN [g \in DOMAIN before |->
                        IF before[g].ref = ref
                        THEN [before[g] EXCEPT !.items = Append(@, item)]
                        ELSE before[g]]
            ELSE Append(before, [ref |-> ref, items |-> <<item>>])

IndexKeys(index) == {index[g].ref : g \in DOMAIN index}

\* tax_by_catastral.get(ref, [])
IndexGet(index, ref) ==
    IF ref \in IndexKeys(index)
    THEN index[CHOOSE g \in DOMAIN index : index[g].ref = ref].items
    ELSE <<>>

\* the fallback taking the first key of the index whatever its similarity
FirstFuzzyAnyKey(index, ref) == IF index = <<>> THEN 0 ELSE 1

\* the first key of the index, in its order, that fuzzy-matches ref; 0 if none
FirstFuzzy(index, ref) ==
    LET hits == {g \in DOMAIN index : fuzzy_match_catastral(ref, index[g].ref)}
    IN IF hits = {} THEN 0 ELSE CHOOSE g \in hits : \A h \in hits : g <= h

\* the deed properties in the order of the two nested loops: <<e, p>>
DeedProps(d) ==
    Flatten([e \in DOMAIN d.escrituras |->
                [p \in DOMAIN d.escrituras[e].properties |-> <<e, p>>]])

Idle == PropertyComparisonReport(<<>>, <<>>)

\* where the call goes once deed property k is done
AfterProperty(d, k) == IF k < Len(DeedProps(d)) THEN "property" ELSE "orphans"

\* the flattening writing the form id it made into the form
\* (form.setdefault('document_number', form_id))
BuildIndexSettingFormId ==
    /\ pc = "start"
    /\ tax_by_catastral' =
            LET items == TaxProperties(data.tax_forms)
            IN GroupByCatastral(data, items, Len(items))
    /\ data' = [data EXCEPT !.tax_forms =
                    [f \in DOMAIN data.tax_forms |->
                        [data.tax_forms[f] EXCEPT
                            !.document_number = Str(FormId(data.tax_forms[f], f - 1))]]]
    /\ matched_refs' = {}
    /\ pc' = AfterProperty(data, 0)
    /\ cursor' = [cursor EXCEPT !.k = 1, !.m = 1, !.o = 1]
    /\ UNCHANGED <<reports, report, matches, fuzzy_log, error>>
    /\ UNCHANGED <<mergeVars, flowVars, stepVars>>

\* lines 175-200: the flattening, the index and the empty matched set
BuildIndex ==
    /\ pc = "start"
    /\ tax_by_catastral' =
            LET items == TaxProperties(data.tax_forms)
            IN GroupByCatastral(data, items, Len(items))
    /\ matched_refs' = {}
    /\ pc' = AfterProperty(data, 0)
    /\ cursor' = [k |-> 1, m |-> 1, o |-> 1]
    /\ UNCHANGED <<data, reports, report, matches, fuzzy_log, error>>
    /\ UNCHANGED <<mergeVars, flowVars, stepVars>>

\* lines 202-237: one deed property is looked up, exactly and then fuzzily
MatchProperty ==
    /\ pc = "property"
    /\ LET ep == DeedProps(data)[cursor.k]
           escritura == data.escrituras[ep[1]]
           prop == escritura.properties[ep[2]]
           escritura_id == PyStr(Get(escritura.document_number, Str(<<"u", "n", "k">>)))
           ref == normalize_catastral_ref(Get(prop.ref_catastral, Str(<<>>)))
           prop_id == PyStr(Get(prop.id, Str(<<"u", "n", "k">>)))
           new == PropertyComparisonReport(escritura_id \o <<":">> \o prop_id, ref)
           exact == IndexGet(tax_by_catastral, ref)
       IN \E g \in {IF exact = <<>> /\ ref # <<>>
                    THEN FirstFuzzy(tax_by_catastral, ref) ELSE 0} :
          LET found == IF g > 0 THEN tax_by_catastral[g].items ELSE exact
          IN
          /\ fuzzy_log' = IF g > 0
                          THEN Append(fuzzy_log, <<ref, tax_by_catastral[g].ref>>)
                          ELSE fuzzy_log
          /\ \/ /\ found = <<>>
                /\ reports' = Append(reports,
                        add_issue(new,
                            Issue("MISSING_TAX_FORM", "error", F("ref_catastral"),
                                  Str(ref), None,
                                  FArg("No tax form found for property ", ref), None)))
                /\ pc' = AfterProperty(data, cursor.k)
                /\ cursor' = [cursor EXCEPT !.k = @ + 1]
                /\ UNCHANGED <<report, matches, matched_refs>>
             \/ /\ found # <<>>
                /\ report' = [new EXCEPT !.matched_forms =
                                [i \in DOMAIN found |-> found[i].form_id]]
                /\ matched_refs' = matched_refs \cup {ref}
                /\ matches' = found
                /\ cursor' = [cursor EXCEPT !.m = 1]
                /\ pc' = "compare"
                /\ UNCHANGED reports
    /\ UNCHANGED <<data, tax_by_catastral, error>>
    /\ UNCHANGED <<mergeVars, flowVars, stepVars>>

\* the nifs whose set order shows in the issues of a match
PartyNifs(escritura, form) ==
    NifSet(escritura.sellers, "seller_nif") \cup NifSet(form.sellers, "seller_nif")
    \cup NifSet(escritura.buyers, "buyer_nif") \cup NifSet(form.buyers, "buyer_nif")

\* lines 239-347: every rule on one match of the group; an exception of a
\* rule leaves the call
CompareMatch ==
    /\ pc = "compare"
    /\ cursor.m <= Len(matches)
    /\ LET ep == DeedProps(data)[cursor.k]
           escritura == data.escrituras[ep[1]]
           prop == escritura.properties[ep[2]]
           match == matches[cursor.m]
           form == data.tax_forms[match.form]
           tax_prop == ItemProperty(data, match)
       IN \E ord \in Orders(PartyNifs(escritura, form)) :
          \E res \in {CompareRules(escritura, form, prop, tax_prop, match.form_id, ord)} :
               \/ /\ res.raise = "none"
                  /\ report' = add_issues(report, res.issues)
                  /\ cursor' = [cursor EXCEPT !.m = @ + 1]
                  /\ UNCHANGED <<pc, error>>
               \/ /\ res.raise # "none"
                  /\ error' = res.raise
                  /\ pc' = "raised"
                  /\ UNCHANGED <<report, cursor>>
    /\ UNCHANGED <<data, tax_by_catastral, matched_refs, reports, matches, fuzzy_log>>
    /\ UNCHANGED <<mergeVars, flowVars, stepVars>>

\* line 349: the report of the property joins the result
AppendReport ==
    /\ pc = "compare"
    /\ cursor.m > Len(matches)
    /\ reports' = Append(reports, report)
    /\ pc' = AfterProperty(data, cursor.k)
    /\ cursor' = [cursor EXCEPT !.k = @ + 1]
    /\ report' = Idle
    /\ matches' = <<>>
    /\ UNCHANGED <<data, tax_by_catastral, matched_refs, fuzzy_log, error>>
    /\ UNCHANGED <<mergeVars, flowVars, stepVars>>

\* the orphan reports raised with severity error
OrphanReportsAsError(entry) ==
    [i \in DOMAIN entry.items |->
        add_issue(
            PropertyComparisonReport(
                <<"o", "r", "p", "h", "a", "n", ":">> \o entry.items[i].form_id,
                entry.ref),
            Issue("ORPHAN_TAX_FORM", "error", F("ref_catastral"),
                  None, Str(entry.ref),
                  FArg("Tax form property {} has no matching escritura", entry.ref),
                  Str(entry.items[i].form_id)))]

\* the orphan reports of one index entry: one per item
OrphanReports(entry) ==
    [i \in DOMAIN entry.items |->
        add_issue(
            PropertyComparisonReport(
                <<"o", "r", "p", "h", "a", "n", ":">> \o entry.items[i].form_id,
                entry.ref),
            Issue("ORPHAN_TAX_FORM", "warning", F("ref_catastral"),
                  None, Str(entry.ref),
                  FArg("Tax form property {} has no matching escritura", entry.ref),
                  Str(entry.items[i].form_id)))]

\* lines 351-368: one key of the index is checked against matched_refs
CheckOrphan ==
    /\ pc = "orphans"
    /\ cursor.o <= Len(tax_by_catastral)
    /\ LET entry == tax_by_catastral[cursor.o]
       IN \/ /\ entry.ref \notin matched_refs
             /\ reports' = reports \o OrphanReports(entry)
          \/ /\ entry.ref \in matched_refs
             /\ UNCHANGED reports
    /\ cursor' = [cursor EXCEPT !.o = @ + 1]
    /\ UNCHANGED <<data, pc, tax_by_catastral, matched_refs, report, matches,
                   fuzzy_log, error>>
    /\ UNCHANGED <<mergeVars, flowVars, stepVars>>

\* line 370: return reports
Return ==
    /\ pc = "orphans"
    /\ cursor.o > Len(tax_by_catastral)
    /\ pc' = "done"
    /\ UNCHANGED <<data, tax_by_catastral, matched_refs, reports, report, matches,
                   cursor, fuzzy_log, error>>
    /\ UNCHANGED <<mergeVars, flowVars, stepVars>>

NextCompare ==
    \/ BuildIndex
    \/ MatchProperty
    \/ CompareMatch
    \/ AppendReport
    \/ CheckOrphan
    \/ Return

\* ------------------------------------------------------- the input families

\* a deed and a tax form that agree on every record-level field
BaseDeed ==
    [BaseRecord EXCEPT
        !.document_number = Str(DocDeed), !.date_of_sale = Str(SaleDate),
        !.sellers = <<Person(Str(NifA))>>, !.buyers = <<Person(Str(NifB))>>,
        !.notary = [t |-> "dict", name |-> Str(NotaryText)]]

BaseForm ==
    [BaseRecord EXCEPT
        !.date_of_sale = Str(SaleDate),
        !.sellers = <<Person(Str(NifA))>>, !.buyers = <<Person(Str(NifB))>>,
        !.notary = [t |-> "dict", name |-> Str(NotaryText)]]

DeedProp(n, ref) == [BaseProp EXCEPT !.id = Str(IntText(n, 1)), !.ref_catastral = ref]
TaxProp(ref) == [BaseProp EXCEPT !.ref_catastral = ref]

\* the ways to cut n tax properties into consecutive forms: the form of each
Cuts(n) ==
    {c \in [1..n -> 1..n] :
        /\ n > 0 => c[1] = 1
        /\ \A i \in 1..(n - 1) : c[i + 1] \in {c[i], c[i] + 1}}

\* the tax forms of a cut; every second form states a document number
FormsOf(refs, cut) ==
    LET nforms == IF refs = <<>> THEN 0 ELSE cut[Len(refs)]
        inForm(f) == {i \in DOMAIN refs : cut[i] = f}
        first(f) == CHOOSE i \in inForm(f) : \A h \in inForm(f) : i <= h
    IN [f \in 1..nforms |->
            [BaseForm EXCEPT
                !.document_number = IF f % 2 = 0 THEN Str(DocForm) ELSE Absent,
                !.properties =
                    [j \in 1..Cardinality(inForm(f)) |-> TaxProp(refs[first(f) + j - 1])]]]

\* the inputs that vary the cadastral references and the shape of the forms
MatchingInputs ==
    {[escrituras |-> <<[BaseDeed EXCEPT !.properties =
                            [n \in DOMAIN drefs |-> DeedProp(n, drefs[n])]]>>,
      tax_forms |-> FormsOf(trefs, cut)] :
        drefs \in SeqsBetween(DeedRefPool, 1, MaxDeedProps),
        <<trefs, cut>> \in
            UNION {{<<r, c>> : r \in [1..n -> TaxRefPool], c \in Cuts(n)} :
                        n \in 0..MaxTaxProps}}

\* a deed property with a truncated reference, and tax-form properties with
\* the whole reference, another one on the same prefix, and a different one
PrefixInputs ==
    {[escrituras |-> <<[BaseDeed EXCEPT !.properties = <<DeedProp(1, Str(RefATrunc))>>]>>,
      tax_forms |-> FormsOf(trefs, cut)] :
        <<trefs, cut>> \in
            UNION {{<<r, c>> : r \in [1..n -> {Str(RefA), Str(RefAD), Str(RefX)}],
                               c \in Cuts(n)} : n \in 1..MaxTaxProps}}

\* one deed property and one tax-form property on the same reference
OnePair(deed, form) ==
    [escrituras |-> <<[deed EXCEPT !.properties =
                        <<[DeedProp(1, Str(RefARaw)) EXCEPT !.id = Str(<<"1">>)]>>]>>,
     tax_forms |-> <<[form EXCEPT !.properties = <<TaxProp(Str(RefA))>>]>>]

PersonPool ==
    {Person(Str(NifA)), Person(Str(NifARaw)), Person(None),
     [seller_nif |-> Str(NifB), buyer_nif |-> Absent, nif |-> Str(NifC)]}

\* the inputs that vary the sellers of the two sides
SellerInputs ==
    {OnePair([BaseDeed EXCEPT !.sellers = es], [BaseForm EXCEPT !.sellers = ts]) :
        es \in SeqsBetween(PersonPool, 0, MaxSellers),
        ts \in SeqsBetween(PersonPool, 0, MaxSellers)}

\* the shapes a notary entry takes: missing, null, a plain string, a dict
NotaryPool ==
    {[notary |-> [t |-> "absent", name |-> Absent], notary_name |-> Str(NotaryText)],
     [notary |-> [t |-> "none", name |-> Absent], notary_name |-> Absent],
     [notary |-> [t |-> "str", name |-> Absent], notary_name |-> Absent],
     [notary |-> [t |-> "dict", name |-> Str(NotaryText)], notary_name |-> Absent],
     [notary |-> [t |-> "dict", name |-> Str(NotaryLower)], notary_name |-> Absent],
     [notary |-> [t |-> "dict", name |-> Str(NotaryOther)], notary_name |-> Absent],
     [notary |-> [t |-> "dict", name |-> Str(NotaryAccent)], notary_name |-> Absent],
     [notary |-> [t |-> "dict", name |-> None], notary_name |-> Absent]}

\* the inputs that vary the notary of the two sides
NotaryInputs ==
    {OnePair([BaseDeed EXCEPT !.notary = e.notary, !.notary_name = e.notary_name],
             [BaseForm EXCEPT !.notary = t.notary, !.notary_name = t.notary_name]) :
        e \in NotaryPool, t \in NotaryPool}

DecimalPool ==
    {Absent, None, Str(<<>>), Str(<<"1", "5", "0", ".", "0", "0", "0", ",", "5", "0">>), Num(<<"1", "5", "0", "0", "0", "0", ".", "5">>),
     Str(<<"1", "5", "0", "0", "0", "0", ",", "5", "2">>), Str(<<"0">>), Str(<<"a", "b", "c">>),
     Str(<<"N", "a", "N">>), Str(<<"I", "n", "f", "i", "n", "i", "t", "y">>),
     Str(<<"1", ",", "2", "3", "4", ".", "5">>), Str(<<"1", ".", "2", "3", "4", ",", "5">>)}

\* the inputs that vary the declared value of the two properties
ValueInputs ==
    {[escrituras |-> <<[BaseDeed EXCEPT !.properties =
                        <<[DeedProp(1, Str(RefARaw)) EXCEPT !.declared_value = ev]>>]>>,
      tax_forms |-> <<[BaseForm EXCEPT !.properties =
                        <<[TaxProp(Str(RefA)) EXCEPT !.declared_value = tv]>>]>>] :
        ev \in DecimalPool, tv \in DecimalPool}

DatePool ==
    {Absent, None, Str(SaleDate), Str(<<"2", "0", "2", "5", "-", "0", "2", "-", "1", "0">>), Str(<<"1", "0", "/", "0", "2", "/", "2", "0", "2", "5">>),
     Str(<<"1", "1", ".", "0", "2", ".", "2", "0", "2", "5">>), Str(<<"3", "1", "-", "0", "2", "-", "2", "0", "2", "5">>), Str(<<"f", "e", "b", "r", "e", "r", "o">>)}

\* the inputs that vary the date of sale of the two sides
DateInputs ==
    {OnePair([BaseDeed EXCEPT !.date_of_sale = ed], [BaseForm EXCEPT !.date_of_sale = td]) :
        ed \in DatePool, td \in DatePool}

BreakdownPool ==
    {[property_id |-> Str(<<"1">>), seller_nif |-> Str(NifA),
      percentage_sold |-> Str(<<"5", "0", ",", "0", "0">>)],
     [property_id |-> Str(<<"1">>), seller_nif |-> Str(NifA),
      percentage_sold |-> Num(<<"4", "0">>)],
     [property_id |-> Str(<<"1">>), seller_nif |-> Absent,
      percentage_sold |-> Str(<<"5", "0">>)],
     [property_id |-> Str(<<"2">>), seller_nif |-> Absent,
      percentage_sold |-> Str(<<"5", "0">>)],
     [property_id |-> Str(<<"1">>), seller_nif |-> Str(NifA),
      percentage_sold |-> Str(<<"N", "a", "N">>)]}

\* the inputs that vary the sale breakdown of the two sides and the id of
\* the deed property
BreakdownInputs ==
    {[escrituras |-> <<[BaseDeed EXCEPT
                          !.sale_breakdown = eb,
                          !.properties = <<[DeedProp(1, Str(RefARaw)) EXCEPT !.id = id]>>]>>,
      tax_forms |-> <<[BaseForm EXCEPT
                          !.sale_breakdown = tb,
                          !.properties = <<TaxProp(Str(RefA))>>]>>] :
        eb \in SeqsBetween(BreakdownPool, 0, 1),
        tb \in SeqsBetween(BreakdownPool, 0, 1),
        id \in {Str(<<"1">>), Absent}}

\* an ownership map: the tax IDs in insertion order, each with its percentage
Shares(entries) == [t |-> "dict", d |-> entries]
Share(nif, pct) == [nif |-> nif, pct |-> pct]

DeedSharePool ==
    {[t |-> "absent", d |-> <<>>],
     Shares(<<Share(NifA, Num(<<"5", "0">>)), Share(NifB, Num(<<"5", "0">>))>>),
     Shares(<<Share(NifA, Num(<<"0">>)), Share(NifB, Num(<<"1", "0", "0">>))>>),
     Shares(<<Share(NifA, Str(<<"5", "0", ",", "0", "5">>)), Share(NifC, Num(<<"5", "0">>))>>),
     Shares(<<Share(NifA, Str(<<"a", "b", "c">>))>>),
     Shares(<<Share(NifA, Str(<<"N", "a", "N">>))>>)}

TaxSharePool ==
    {[t |-> "absent", d |-> <<>>],
     Shares(<<Share(NifA, Num(<<"4", "0">>)), Share(NifB, Num(<<"6", "0">>))>>),
     Shares(<<Share(NifB, Num(<<"5", "0">>)), Share(NifA, Num(<<"5", "0">>))>>),
     Shares(<<Share(NifA, Str(<<"5", "0", ".", "0">>)), Share(NifB, None)>>),
     Shares(<<Share(NifB, Num(<<"1", "0", "0">>))>>)}

\* the inputs that vary the ownership maps of the two properties
OwnershipInputs ==
    {[escrituras |-> <<[BaseDeed EXCEPT !.properties =
                        <<[DeedProp(1, Str(RefARaw)) EXCEPT !.ownership_distribution = ed]>>]>>,
      tax_forms |-> <<[BaseForm EXCEPT !.properties =
                        <<[TaxProp(Str(RefA)) EXCEPT !.ownership_distribution = td]>>]>>] :
        ed \in DeedSharePool, td \in TaxSharePool}

NumberPool ==
    {Absent, None, Str(DocDeed), Str(DocForm), Num(DocDeed),
     Str(<<"p", " ", "1", "2">>), Str(<<"P", " ", " ", "1", "2">>)}

\* the inputs that vary the protocol number, or the document number, of the
\* two sides
NumberInputs ==
    {OnePair([BaseDeed EXCEPT !.protocol_number = en],
             [BaseForm EXCEPT !.protocol_number = tn]) :
        en \in NumberPool, tn \in NumberPool}
    \cup
    {OnePair([BaseDeed EXCEPT !.document_number = en],
             [BaseForm EXCEPT !.document_number = tn]) :
        en \in NumberPool, tn \in NumberPool}

\* an address or a use given under either of its field names
AliasPool ==
    {[BaseProp EXCEPT !.address = Str(<<"C", "a", "l", "l", "e", " ", "S", "o", "l", " ", "1">>), !.type = Str(<<"u", "r", "b", "a", "n", "a">>)],
     [BaseProp EXCEPT !.direccion = Str(<<"c", "a", "l", "l", "e", " ", " ", "s", "o", "l", " ", "1">>), !.uso = Str(<<"U", "r", "b", "a", "n", "a">>)],
     [BaseProp EXCEPT !.address = Str(<<"P", "l", "a", "z", "a", " ", "R", "e", "y", " ", "2", "2">>), !.uso = Str(<<"r", "u", "s", "t", "i", "c", "a">>)],
     [BaseProp EXCEPT !.direccion = Str(<<"P", "l", "a", "z", "a", " ", "R", "e", "y", " ", "2", "2">>), !.type = None, !.uso = Str(<<"r", "u", "s", "t", "i", "c", "a">>)]}

\* the inputs that vary the address and the use of the two properties
AliasInputs ==
    {[escrituras |-> <<[BaseDeed EXCEPT !.properties =
                        <<[ep EXCEPT !.id = Str(<<"1">>), !.ref_catastral = Str(RefARaw)]>>]>>,
      tax_forms |-> <<[BaseForm EXCEPT !.properties =
                        <<[tp EXCEPT !.ref_catastral = Str(RefA)]>>]>>] :
        ep \in AliasPool, tp \in AliasPool}

\* the inputs that vary which identifiers are given: two deed properties
\* with or without an id, in a deed with or without a document number, and
\* two tax forms of which the first states no document number
IdInputs ==
    {[escrituras |-> <<[BaseDeed EXCEPT
                          !.document_number = doc,
                          !.properties = <<[TaxProp(Str(RefARaw)) EXCEPT !.id = id1],
                                           [TaxProp(Str(RefAC)) EXCEPT !.id = id2]>>]>>,
      tax_forms |-> <<[BaseForm EXCEPT !.properties = <<TaxProp(Str(RefA))>>],
                      [BaseForm EXCEPT !.document_number = tdoc,
                                       !.properties = <<TaxProp(Str(RefAC))>>]>>] :
        doc \in {Absent, Str(DocDeed)}, tdoc \in {Absent, Str(DocForm)},
        id1 \in {Absent, Str(<<"1">>)}, id2 \in {Absent, Str(<<"1">>), Str(<<"2">>)}}

\* the inputs that vary the surface of the two properties under two of the
\* field-name variants
SurfaceInputs ==
    {[escrituras |-> <<[BaseDeed EXCEPT !.properties =
                        <<[DeedProp(1, Str(RefARaw)) EXCEPT !.surface_area = e1,
                                                            !.superficie = e2]>>]>>,
      tax_forms |-> <<[BaseForm EXCEPT !.properties =
                        <<[TaxProp(Str(RefA)) EXCEPT !.surface_area = t1,
                                                     !.superficie = t2]>>]>>] :
        e1 \in {Absent, Str(<<"8", "0">>)}, e2 \in {Absent, Str(<<"9", "0">>)},
        t1 \in {Absent, Str(<<"8", "0">>), Str(<<"9", "5">>)},
        t2 \in {Absent, Str(<<"9", "0">>), Str(<<"7", "0">>)}}

RuleInputs ==
    SellerInputs \cup NotaryInputs \cup ValueInputs \cup DateInputs \cup BreakdownInputs
    \cup OwnershipInputs \cup NumberInputs \cup AliasInputs \cup IdInputs
    \cup SurfaceInputs

\* the state before the call
Fresh ==
    /\ pc = "start"
    /\ tax_by_catastral = <<>>
    /\ matched_refs = {}
    /\ reports = <<>>
    /\ report = Idle
    /\ matches = <<>>
    /\ cursor = [k |-> 1, m |-> 1, o |-> 1]
    /\ fuzzy_log = <<>>
    /\ error = "none"
    /\ NoMerge
    /\ NoFlow
    /\ NoStep

\* the call on the inputs that vary the references
InitCompare == data \in MatchingInputs \cup PrefixInputs /\ Fresh

SpecCompare == InitCompare /\ [][NextCompare]_vars

\* the call on the inputs that vary the fields of one matched pair
InitRules == data \in RuleInputs /\ Fresh

SpecRules == InitRules /\ [][NextCompare]_vars

\* ------------------------------------------- a report under add_issue calls

MaxIssues == 5

Severities == {"ok", "warning", "error"}

\* the state before the first add_issue call on a new report
InitReport ==
    /\ data = [escrituras |-> <<>>, tax_forms |-> <<>>]
    /\ pc = "report"
    /\ report = PropertyComparisonReport(<<"1", ":", "1">>, Prefix(RefA, SignificantPrefix))
    /\ tax_by_catastral = <<>>
    /\ matched_refs = {}
    /\ reports = <<>>
    /\ matches = <<>>
    /\ cursor = [k |-> 1, m |-> 1, o |-> 1]
    /\ fuzzy_log = <<>>
    /\ error = "none"
    /\ NoMerge
    /\ NoFlow
    /\ NoStep

\* one call report.add_issue(Issue(...)) by any caller
AddIssue ==
    /\ pc = "report"
    /\ Len(report.issues) < MaxIssues
    /\ \E severity \in Severities, code \in {"VALUE_MISMATCH", "NOTARY_MISMATCH"} :
          report' = add_issue(report,
                        Issue(code, severity, F("declared_value"),
                              Num(<<"1">>), None, F("mismatch"), Absent))
    /\ UNCHANGED <<data, pc, tax_by_catastral, matched_refs, reports, matches,
                   cursor, fuzzy_log, error>>
    /\ UNCHANGED <<mergeVars, flowVars, stepVars>>

NextReport == AddIssue

SpecReport == InitReport /\ [][NextReport]_vars

\* --------------------------------------- Python values of the merge engine

IsNone(pv) == pv.t \in {"none", "absent"}
IsEmptyStr(pv) == pv.t = "str" /\ pv.v = <<>>

\* bool(x) of any value
Bool(pv) ==
    CASE pv.t \in {"dict", "list"} -> pv.v # <<>>
      [] pv.t = "dec" -> DecTruthy(DecimalOf(pv.v))
      [] OTHER -> Truthy(pv)

\* key in d
Has(d, key) == \E i \in DOMAIN d.v : d.v[i][1] = key

\* d.get(key, default)
DictGet(d, key, default) ==
    IF Has(d, key) THEN d.v[CHOOSE i \in DOMAIN d.v : d.v[i][1] = key][2] ELSE default

\* d[key] = value: in place for a key of d, at the end for a new key
DictSet(d, key, value) ==
    IF Has(d, key)
    THEN Dict([i \in DOMAIN d.v |-> IF d.v[i][1] = key THEN <<key, value>> ELSE d.v[i]])
    ELSE Dict(Append(d.v, <<key, value>>))

\* str.lower()
LowerChar(c) ==
    IF c \in Range(Uppers) THEN Lowers[CHOOSE i \in DOMAIN Uppers : Uppers[i] = c] ELSE c
Lower(s) == [i \in DOMAIN s |-> LowerChar(s[i])]

\* str.isupper(), str.islower(): some cased letter, and none of the other case
IsUpper(s) ==
    (\E i \in DOMAIN s : s[i] \in Range(Uppers)) /\ (\A i \in DOMAIN s : s[i] \notin Range(Lowers))
IsLower(s) ==
    (\E i \in DOMAIN s : s[i] \in Range(Lowers)) /\ (\A i \in DOMAIN s : s[i] \notin Range(Uppers))

\* sub in s
HasSub(s, sub) ==
    \E i \in 0..(Len(s) - Len(sub)) : SubSeq(s, i + 1, i + Len(sub)) = sub

\* s.startswith(pre)
StartsWith(s, pre) == Len(s) >= Len(pre) /\ SubSeq(s, 1, Len(pre)) = pre

\* the keys of the dicts, sorted as json.dumps(sort_keys=True) sorts them
SortedKeys ==
    <<"a_ingresar", "address", "amount", "area_built", "area_usable",
      "base_imponible", "base_liquidable", "bonificacion", "buyer_nif",
      "buyers", "coef_adquisicion", "college", "concepto",
      "constructed_surface", "cuota", "date_of_sale", "declared_value",
      "declared_value_escritura", "destinada_vivienda_habitual",
      "deuda_tributaria", "expenses_clause", "fecha_devengo", "form_type",
      "full_name", "id", "incremento_valor_terrenos_urbanos",
      "intereses_mora", "liquidation_data", "marital_regime", "municipality",
      "name", "nature", "nif", "notary", "operation", "other_details",
      "other_expenses", "percent_transferred", "price_breakdown",
      "properties", "property", "property_id", "province", "reduccion",
      "ref_catastral", "role", "segunda_vivienda_mismo_municipio",
      "seller_nif", "sellers", "sujeto_pasivo", "surface_area",
      "technical_data", "tipo", "transmission_coefficient", "transmitentes",
      "type", "type_of_asset", "valor_declarado", "who_pays_taxes">>

\* json.loads(json.dumps(v, sort_keys=True)): every dict with its keys sorted
RECURSIVE JsonRoundTrip(_)
JsonRoundTrip(pv) ==
    CASE pv.t = "dict" ->
            LET present(key) == Has(pv, key)
                keys == SelectSeq(SortedKeys, present)
            IN Dict([i \in DOMAIN keys |->
                        <<keys[i], JsonRoundTrip(DictGet(pv, keys[i], None))>>])
      [] pv.t = "list" -> List([i \in DOMAIN pv.v |-> JsonRoundTrip(pv.v[i])])
      [] OTHER -> pv

\* json.dumps raises TypeError on a Decimal anywhere in the value
RECURSIVE JsonSerializable(_)
JsonSerializable(pv) ==
    CASE pv.t = "dict" -> \A i \in DOMAIN pv.v : JsonSerializable(pv.v[i][2])
      [] pv.t = "list" -> \A i \in DOMAIN pv.v : JsonSerializable(pv.v[i])
      [] OTHER -> pv.t # "dec"

\* the first of each value of a sequence, in order: the keys of a Counter
RECURSIVE Distinct(_)
Distinct(s) ==
    IF s = <<>> THEN <<>>
    ELSE LET before == Distinct(SubSeq(s, 1, Len(s) - 1))
         IN IF s[Len(s)] \in Range(before) THEN before ELSE Append(before, s[Len(s)])

Count(s, x) == Cardinality({i \in DOMAIN s : s[i] = x})

\* Counter(s).most_common(): by count, the first seen first among equals
RECURSIVE MostCommon(_, _)
MostCommon(s, keys) ==
    IF keys = <<>> THEN <<>>
    ELSE LET top == CHOOSE i \in DOMAIN keys :
                        /\ \A j \in DOMAIN keys : Count(s, keys[j]) <= Count(s, keys[i])
                        /\ \A j \in 1..(i - 1) : Count(s, keys[j]) < Count(s, keys[i])
             rest(j) == keys[IF j < top THEN j ELSE j + 1]
         IN <<keys[top]>> \o MostCommon(s, [j \in 1..(Len(keys) - 1) |-> rest(j)])

\* a Decimal number without its trailing zeros: 1 and 1.0 are one Counter key
RECURSIVE Reduced(_)
Reduced(d) ==
    IF d.k = "num" /\ d.e > 0 /\ d.m % 10 = 0 THEN Reduced(Dec(d.m \div 10, d.e - 1)) ELSE d

\* the Counter key of a simple value: the number itself for an int or a
\* float, str(v) for any other value (of a dict or a list: its repr)
VoteKey(pv) ==
    CASE pv.t = "num" -> [kind |-> "number", text |-> <<>>, num |-> Reduced(DecimalOf(pv.v)), obj |-> None]
      [] pv.t \in {"dict", "list"} -> [kind |-> "text", text |-> <<>>, num |-> NoDecimal, obj |-> pv]
      [] OTHER -> [kind |-> "text", text |-> PyStr(pv), num |-> NoDecimal, obj |-> None]

\* str(v) == winner_str
StrIs(pv, key) ==
    /\ key.kind = "text"
    /\ IF pv.t \in {"dict", "list"} THEN key.obj = pv
       ELSE key.obj = None /\ PyStr(pv) = key.text

\* ------------------------------------------------- the vote of one field

\* the result of a step that may raise: the exception or "none", and a value
Ok(value) == [raise |-> "none", value |-> value]
Raised(exception) == [raise |-> exception, value |-> None]

\* the collection skipping blank texts, empty lists and empty dicts, not None
SkippedUnlessNone(value) ==
    \/ value.t = "str" /\ Strip(value.v) = <<>>
    \/ value.t = "list" /\ value.v = <<>>
    \/ value.t = "dict" /\ \A i \in DOMAIN value.v : ~Bool(value.v[i][2])

\* the values the collection skips: None, a blank text, an empty list, a
\* dict with no truthy value
Skipped(value) ==
    \/ IsNone(value)
    \/ value.t = "str" /\ Strip(value.v) = <<>>
    \/ value.t = "list" /\ value.v = <<>>
    \/ value.t = "dict" /\ \A i \in DOMAIN value.v : ~Bool(value.v[i][2])

\* values: the field's value in each chunk, in chunk order, the skipped left out
Values(chunks, field_name) ==
    LET all == [i \in DOMAIN chunks |-> DictGet(chunks[i], field_name, None)]
        kept(value) == ~Skipped(value)
    IN SelectSeq(all, kept)

\* all_items: every item of every chunk's list, a value that is no list as one item
AllItems(values) ==
    Flatten([i \in DOMAIN values |->
                IF values[i].t = "list" THEN values[i].v ELSE <<values[i]>>])

\* the vote on dict values: the first seen of the most frequent JSON texts,
\* parsed back; json.dumps raises TypeError on a value it cannot serialise
DictVote(values) ==
    IF \E i \in DOMAIN values : ~JsonSerializable(values[i]) THEN Raised("TypeError")
    ELSE LET json_values == [i \in DOMAIN values |-> JsonRoundTrip(values[i])]
         IN Ok(MostCommon(json_values, Distinct(json_values))[1])

\* the vote on simple values: the only value, the clear majority found back
\* by its text (next() on no hit raises StopIteration), or the last value
SimpleVote(values) ==
    LET keys == [i \in DOMAIN values |-> VoteKey(values[i])]
        most_common == MostCommon(keys, Distinct(keys))
        hits == {i \in DOMAIN values : StrIs(values[i], most_common[1])}
    IN IF Len(most_common) = 1 THEN Ok(values[1])
       ELSE IF Count(keys, most_common[1]) > Count(keys, most_common[2])
            THEN IF hits = {} THEN Raised("StopIteration")
                 ELSE Ok(values[CHOOSE i \in hits : \A j \in hits : i <= j])
       ELSE Ok(values[Len(values)])

\* the merge strategy of one field
MergeValues(values, is_list_field) ==
    IF values = <<>> THEN Ok(IF is_list_field THEN List(<<>>) ELSE None)
    ELSE IF is_list_field THEN Ok(List(AllItems(values)))
    ELSE IF \A i \in DOMAIN values : values[i].t = "dict" THEN DictVote(values)
    ELSE SimpleVote(values)

\* ----------------------------------------------------------- normalize_name

Titles ==
    <<<<"d", "o", "n", " ">>,
    <<"d", "o", "ñ", "a", " ">>,
    <<"s", "r", ".", " ">>,
    <<"s", "r", "a", ".", " ">>,
    <<"s", "e", "ñ", "o", "r", " ">>,
    <<"s", "e", "ñ", "o", "r", "a", " ">>,
    <<"d", ".", " ">>,
    <<"d", "ª", " ">>>>

\* the titles removed one after the other, each at most once, in list order
RECURSIVE StripTitles(_, _)
StripTitles(name_lower, titles) ==
    IF titles = <<>> THEN name_lower
    ELSE StripTitles(IF StartsWith(name_lower, Head(titles))
                     THEN SubSeq(name_lower, Len(Head(titles)) + 1, Len(name_lower))
                     ELSE name_lower,
                     Tail(titles))

\* NFD decomposition with the combining marks (category Mn) removed
Unaccented ==
    [c \in {"á", "é", "í", "ó", "ú", "ñ"} |->
        CASE c = "á" -> "a" [] c = "é" -> "e" [] c = "í" -> "i"
          [] c = "ó" -> "o" [] c = "ú" -> "u" [] OTHER -> "n"]
RemoveAccents(s) ==
    [i \in DOMAIN s |-> IF s[i] \in DOMAIN Unaccented THEN Unaccented[s[i]] ELSE s[i]]

\* normalize_name of a text
normalize_name(name) ==
    IF name = <<>> THEN <<>>
    ELSE Strip(CollapseSpaces(RemoveAccents(StripTitles(Strip(Lower(name)), Titles))))

\* ------------------------------------------------------ deduplicate_persons

PersonPlaceholders ==
    <<<<"p", "l", "a", "c", "e", "h", "o", "l", "d", "e", "r">>,
    <<"u", "n", "k", "n", "o", "w", "n">>,
    <<"n", "/", "a">>,
    <<"j", "a", "n", "e", " ", "d", "o", "e">>,
    <<"j", "o", "h", "n", " ", "d", "o", "e">>,
    <<"e", "j", "e", "m", "p", "l", "o">>,
    <<"e", "x", "a", "m", "p", "l", "e">>>>

\* any(keyword in text.lower() for keyword in placeholder_keywords)
IsPlaceholder(text, placeholder_keywords) ==
    \E k \in DOMAIN placeholder_keywords : HasSub(Lower(text), placeholder_keywords[k])

\* what the grouping loop does with an entry: "skip" it, "raise"
\* AttributeError (name.strip() of a truthy value that is no text), or "group" it
PersonKind(person) ==
    IF person.t # "dict" THEN "skip"
    ELSE LET name == DictGet(person, "full_name", Str(<<>>))
         IN IF ~Bool(name) THEN "skip"
            ELSE IF name.t # "str" THEN "raise"
            ELSE IF Strip(name.v) = <<>> THEN "skip"
            ELSE IF IsPlaceholder(name.v, PersonPlaceholders) THEN "skip"
            ELSE IF normalize_name(name.v) = <<>> THEN "skip"
            ELSE "group"

\* the merge of one later entry of a group into merged, item by item
RECURSIVE MergePersonItems(_, _)
MergePersonItems(merged, items) ==
    IF items = <<>> THEN merged
    ELSE LET key == Head(items)[1]
             value == Head(items)[2]
             current == DictGet(merged, key, None)
             after ==
                 IF IsNone(value) \/ IsEmptyStr(value) THEN merged
                 ELSE IF IsNone(current) \/ IsEmptyStr(current)
                      THEN DictSet(merged, key, value)
                 ELSE IF key \in {"nif", "seller_nif", "buyer_nif"}
                      THEN IF IsNone(DictGet(merged, "nif", None)) /\ Bool(value)
                           THEN DictSet(merged, "nif", value)
                           ELSE merged
                 ELSE IF key = "full_name" /\ Bool(value)
                      THEN IF IsUpper(current.v) /\ ~IsUpper(value.v)
                           THEN DictSet(merged, key, value)
                           ELSE merged
                 ELSE merged
         IN MergePersonItems(after, Tail(items))

RECURSIVE MergePersons(_, _)
MergePersons(merged, group) ==
    IF group = <<>> THEN merged
    ELSE MergePersons(MergePersonItems(merged, Head(group).v), Tail(group))

\* one group merged, its full_name the first mixed-case one, else the first
MergePersonGroup(group) ==
    LET merged == MergePersons(Head(group), Tail(group))
        candidates == [i \in DOMAIN group |-> DictGet(group[i], "full_name", Str(<<>>))]
        mixed(c) == ~IsUpper(c.v) /\ ~IsLower(c.v)
        mixed_case == SelectSeq(candidates, mixed)
    IN DictSet(merged, "full_name",
               IF mixed_case # <<>> THEN mixed_case[1] ELSE candidates[1])

\* deduplicate_persons of a non-empty list
deduplicate_persons(persons) ==
    IF \E i \in DOMAIN persons : PersonKind(persons[i]) = "raise"
    THEN Raised("AttributeError")
    ELSE LET grouped(person) == PersonKind(person) = "group"
             kept == SelectSeq(persons, grouped)
             normalized(person) == normalize_name(DictGet(person, "full_name", None).v)
             groups == Distinct([i \in DOMAIN kept |-> normalized(kept[i])])
             group(name) == LET member(person) == normalized(person) = name
                            IN SelectSeq(kept, member)
         IN Ok(List([g \in DOMAIN groups |-> MergePersonGroup(group(groups[g]))]))

\* --------------------------------------------------- deduplicate_properties

PropertyPlaceholders ==
    <<<<"p", "l", "a", "c", "e", "h", "o", "l", "d", "e", "r">>,
    <<"u", "n", "k", "n", "o", "w", "n">>,
    <<"n", "/", "a">>,
    <<"e", "j", "e", "m", "p", "l", "o">>,
    <<"e", "x", "a", "m", "p", "l", "e">>,
    <<"c", "a", "l", "l", "e", " ", "f", "a", "l", "s", "a">>>>

\* float(str(x).replace(',', '.')) if x else 0; NoDecimal for a ValueError
FloatOf(pv) ==
    IF ~Bool(pv) THEN Dec(0, 0)
    ELSE DecimalOf(Strip(ReplaceChar(PyStr(pv), ",", ".")))

\* a > b of two floats
FloatGreater(a, b) ==
    CASE a.k = "nan" \/ b.k = "nan" -> FALSE
      [] a.k = "inf" -> a.m > 0 /\ ~(b.k = "inf" /\ b.m > 0)
      [] b.k = "inf" -> b.m < 0
      [] OTHER -> LET e == Max2(a.e, b.e)
                  IN a.m * Pow10(e - a.e) > b.m * Pow10(e - b.e)

\* v not in [None, '', []]
NonNull(pv) == ~IsNone(pv) /\ ~IsEmptyStr(pv) /\ ~(pv.t = "list" /\ pv.v = <<>>)

\* the fields of an entry other than id that are not None, '' or []
NonNullFields(prop) == {i \in DOMAIN prop.v : prop.v[i][1] # "id" /\ NonNull(prop.v[i][2])}

\* the key of an entry: ('ref', ref_cat), ('addr', address.lower()) or none
PropertyKey(prop) ==
    LET ref_cat == Strip(DictGet(prop, "ref_catastral", Str(<<>>)).v)
        value == DictGet(prop, "address", None)
        address == IF Bool(value) THEN Strip(value.v) ELSE <<>>
    IN IF ref_cat # <<>> THEN <<"ref", ref_cat>>
       ELSE IF address # <<>> THEN <<"addr", Lower(address)>>
       ELSE <<"none", <<>>>>

\* what the grouping loop does with an entry: "skip" it (no dict, a
\* placeholder, or nothing in it), "raise" AttributeError (.strip() of a
\* value that is no text), or file it as "keyed" or "unkeyed"
PropertyKind(prop) ==
    IF prop.t # "dict" THEN "skip"
    ELSE IF \E i \in DOMAIN prop.v :
                prop.v[i][2].t = "str" /\ IsPlaceholder(prop.v[i][2].v, PropertyPlaceholders)
         THEN "skip"
    ELSE IF DictGet(prop, "ref_catastral", Str(<<>>)).t # "str" THEN "raise"
    ELSE IF Bool(DictGet(prop, "address", None)) /\ DictGet(prop, "address", None).t # "str"
         THEN "raise"
    ELSE IF PropertyKey(prop)[1] # "none" THEN "keyed"
    ELSE IF \E i \in NonNullFields(prop) : Bool(prop.v[i][2]) THEN "unkeyed"
    ELSE "skip"

RECURSIVE MergePropertyItems(_, _)
MergePropertyItems(merged, items) ==
    IF items = <<>> THEN merged
    ELSE LET field_name == Head(items)[1]
             value == Head(items)[2]
             current == DictGet(merged, field_name, None)
             after ==
                 IF IsNone(value) \/ IsEmptyStr(value) THEN merged
                 ELSE IF IsNone(current) \/ IsEmptyStr(current)
                      THEN DictSet(merged, field_name, value)
                 ELSE IF field_name \in {"declared_value", "surface_area"}
                      THEN LET current_num == FloatOf(current)
                               value_num == FloatOf(value)
                           IN IF /\ current_num.k # "none"
                                 /\ value_num.k # "none"
                                 /\ FloatGreater(value_num, current_num)
                              THEN DictSet(merged, field_name, value)
                              ELSE merged
                 ELSE merged
         IN MergePropertyItems(after, Tail(items))

RECURSIVE MergeProperties(_, _)
MergeProperties(merged, group) ==
    IF group = <<>> THEN merged
    ELSE MergeProperties(MergePropertyItems(merged, Head(group).v), Tail(group))

\* deduplicate_properties of a non-empty list: the groups merged, in the
\* order their keys were first seen, then the unkeyed entries with two
\* fields or more
deduplicate_properties(properties) ==
    IF \E i \in DOMAIN properties :
           /\ PropertyKind(properties[i]) = "raise"
           /\ \A j \in 1..(i - 1) : PropertyKind(properties[j]) # "raise"
    THEN Raised("AttributeError")
    ELSE LET keyed(prop) == PropertyKind(prop) = "keyed"
             kept == SelectSeq(properties, keyed)
             groups == Distinct([i \in DOMAIN kept |-> PropertyKey(kept[i])])
             group(key) == LET member(prop) == PropertyKey(prop) = key
                           IN SelectSeq(kept, member)
             substantial(prop) ==
                 PropertyKind(prop) = "unkeyed" /\ Cardinality(NonNullFields(prop)) >= 2
         IN Ok(List([g \in DOMAIN groups |->
                        MergeProperties(Head(group(groups[g])), Tail(group(groups[g])))]
                    \o SelectSeq(properties, substantial)))

\* ------------------------------------------------------ the validating models

\* a field of a model class: its kind ("str", "decimal" with ge lo,
\* "positive" with gt 0, "enum", "bool", "model", "list"), its presence
\* ("required", "optional": None allowed and the default, or "default"), its
\* bounds lo and hi (hi < 0: none), and what it is made of: a str's validator,
\* a decimal's default, an enum's values, the class of a model or a list
Field(name, kind, presence, lo, hi, of) ==
    [name |-> name, kind |-> kind, presence |-> presence, lo |-> lo, hi |-> hi, of |-> of]

\* the fields of the model classes, in declaration order
Schema(class) ==
    CASE class = "Person" ->
            <<Field("role", "str", "required", 1, -1, ""),
              Field("full_name", "str", "required", 1, -1, "name"),
              Field("nif", "str", "required", 8, 9, "nif"),
              Field("marital_regime", "str", "optional", 0, -1, "")>>
      [] class = "Notary" ->
            <<Field("name", "str", "required", 1, -1, "name"),
              Field("college", "str", "required", 0, -1, "")>>
      [] class = "Property" ->
            <<Field("id", "str", "required", 0, -1, ""),
              Field("type", "enum", "required", 0, -1, {<<"u", "r", "b", "a", "n", "a">>, <<"r", "ú", "s", "t", "i", "c", "a">>}),
              Field("address", "str", "required", 5, -1, "address"),
              Field("ref_catastral", "str", "required", 14, 20, "ref"),
              Field("declared_value_escritura", "positive", "required", 0, -1, <<>>),
              Field("area_usable", "decimal", "optional", 0, -1, <<>>),
              Field("area_built", "decimal", "optional", 0, -1, <<>>),
              Field("municipality", "str", "optional", 0, -1, ""),
              Field("province", "str", "optional", 0, -1, "")>>
      [] class = "PriceBreakdown" ->
            <<Field("property_id", "str", "required", 0, -1, ""),
              Field("seller_nif", "str", "required", 0, -1, ""),
              Field("amount", "positive", "required", 0, -1, <<>>)>>
      [] class = "ExpensesClause" ->
            <<Field("who_pays_taxes", "str", "required", 0, -1, ""),
              Field("incremento_valor_terrenos_urbanos", "str", "required", 0, -1, ""),
              Field("other_expenses", "str", "optional", 0, -1, "")>>
      [] class = "Escritura" ->
            <<Field("notary", "model", "required", 0, -1, "Notary"),
              Field("date_of_sale", "str", "required", 0, -1, "date"),
              Field("sellers", "list", "required", 1, -1, "Person"),
              Field("buyers", "list", "required", 1, -1, "Person"),
              Field("properties", "list", "required", 1, -1, "Property"),
              Field("price_breakdown", "list", "required", 0, -1, "PriceBreakdown"),
              Field("expenses_clause", "model", "required", 0, -1, "ExpensesClause")>>
      [] class = "Transmitente" ->
            <<Field("nif", "str", "required", 8, 9, "nif"),
              Field("name", "str", "required", 1, -1, ""),
              Field("transmission_coefficient", "decimal", "required", 0, 100, <<>>)>>
      [] class = "Operation" ->
            <<Field("concepto", "str", "required", 0, -1, ""),
              Field("fecha_devengo", "str", "required", 0, -1, "date")>>
      [] class = "PropertyTaxForm" ->
            <<Field("ref_catastral", "str", "required", 14, 20, "ref"),
              Field("address", "str", "required", 0, -1, ""),
              Field("type_of_asset", "enum", "required", 0, -1, {<<"V", "i", "v", "i", "e", "n", "d", "a">>, <<"R", "u", "s", "t", "i", "c", "a">>}),
              Field("percent_transferred", "decimal", "required", 0, 100, <<>>)>>
      [] class = "TechnicalData" ->
            <<Field("destinada_vivienda_habitual", "bool", "optional", 0, -1, <<>>),
              Field("segunda_vivienda_mismo_municipio", "bool", "optional", 0, -1, <<>>),
              Field("constructed_surface", "decimal", "optional", 0, -1, <<>>),
              Field("other_details", "str", "optional", 0, -1, "")>>
      [] class = "LiquidationData" ->
            <<Field("valor_declarado", "decimal", "required", 0, -1, <<>>),
              Field("coef_adquisicion", "decimal", "optional", 0, 1, <<>>),
              Field("base_imponible", "decimal", "required", 0, -1, <<>>),
              Field("reduccion", "decimal", "default", 0, -1, <<"0">>),
              Field("base_liquidable", "decimal", "required", 0, -1, <<>>),
              Field("tipo", "decimal", "required", 0, 100, <<>>),
              Field("cuota", "decimal", "required", 0, -1, <<>>),
              Field("bonificacion", "decimal", "default", 0, 100, <<"0">>),
              Field("a_ingresar", "decimal", "required", 0, -1, <<>>),
              Field("intereses_mora", "decimal", "default", 0, -1, <<"0">>),
              Field("deuda_tributaria", "decimal", "required", 0, -1, <<>>)>>
      [] class = "Modelo600" ->
            <<Field("form_type", "enum", "required", 0, -1, {<<"6", "0", "0", "U">>, <<"6", "0", "0", "R">>}),
              Field("nature", "enum", "required", 0, -1,
                    {<<"b", "i", "e", "n", "e", "s", "_", "i", "n", "m", "u", "e", "b", "l", "e", "s", "_", "u", "r", "b", "a", "n", "o", "s">>,
                     <<"b", "i", "e", "n", "e", "s", "_", "i", "n", "m", "u", "e", "b", "l", "e", "s", "_", "r", "u", "s", "t", "i", "c", "o", "s">>}),
              Field("sujeto_pasivo", "model", "required", 0, -1, "Person"),
              Field("transmitentes", "list", "required", 1, -1, "Transmitente"),
              Field("operation", "model", "required", 0, -1, "Operation"),
              Field("property", "model", "required", 0, -1, "PropertyTaxForm"),
              Field("technical_data", "model", "optional", 0, -1, "TechnicalData"),
              Field("liquidation_data", "model", "required", 0, -1, "LiquidationData")>>

\* the outcome of a validation: whether it passed and the validated value
Invalid == [ok |-> FALSE, value |-> None]
Valid(value) == [ok |-> TRUE, value |-> value]

StreetTypes == {<<"C", "/">>, <<"C", "A", "L", "L", "E">>, <<"A", "V", "E", "N", "I", "D", "A">>, <<"A", "V", ".">>, <<"P", "L", "A", "Z", "A">>}

\* the field validators of the classes, on a text that passed its bounds
FieldCheck(check, v) ==
    CASE check = "name" ->
            IF Contains(Strip(v), " ") THEN Valid(Str(Strip(v))) ELSE Invalid
      [] check = "nif" -> Valid(Str(Strip(Upper(v))))
      [] check = "ref" ->
            LET u == Strip(Upper(v))
            IN IF /\ Len(u) \in 14..20
                  /\ \A i \in DOMAIN u : IsDigit(u[i]) \/ u[i] \in Range(SubSeq(Uppers, 1, 26))
               THEN Valid(Str(u)) ELSE Invalid
      [] check = "address" ->
            IF \E kw \in StreetTypes : HasSub(Upper(Strip(v)), kw)
            THEN Valid(Str(Strip(v))) ELSE Invalid
      [] check = "date" ->
            LET text == IF Len(v) = 11 /\ v[11] = "\n" THEN SubSeq(v, 1, 10) ELSE v
                d == ParseDigits(SubSeq(text, 1, 2))
                m == ParseDigits(SubSeq(text, 4, 5))
                y == ParseDigits(SubSeq(text, 7, 10))
            IN IF /\ Len(text) = 10
                  /\ text[3] = "-" /\ text[6] = "-"
                  /\ \A i \in {1, 2, 4, 5, 7, 8, 9, 10} : IsDigit(text[i])
                  /\ y >= 1 /\ m \in 1..12 /\ d \in 1..DaysIn(m, y)
               THEN Valid(Str(v)) ELSE Invalid
      [] OTHER -> Valid(Str(v))

\* Decimal arithmetic on finite numbers
DecAdd(a, b) ==
    LET e == Max2(a.e, b.e)
    IN Dec(a.m * Pow10(e - a.e) + b.m * Pow10(e - b.e), e)
DecSub(a, b) == DecAdd(a, Dec(-b.m, b.e))
DecMul(a, b) == Dec(a.m * b.m, a.e + b.e)

RECURSIVE DecSum(_)
DecSum(ds) == IF ds = <<>> THEN Dec(0, 0) ELSE DecAdd(Head(ds), DecSum(Tail(ds)))

\* the Decimal in a validated field
DecField(m, name) == DecimalOf(DictGet(m, name, None).v)

\* abs(a - b) > Decimal('0.01')
Differ(a, b) == AbsDiffVs(a, b, Dec(1, 2)) = "gt"

\* the model validators of a class, on its validated fields
ModelCheck(class, m) ==
    CASE class = "Escritura" ->
            LET properties == DictGet(m, "properties", None).v
                price_breakdown == DictGet(m, "price_breakdown", None).v
                total(prop) ==
                    LET of_prop(pb) == DictGet(pb, "property_id", None) = DictGet(prop, "id", None)
                        entries == SelectSeq(price_breakdown, of_prop)
                    IN DecSum([i \in DOMAIN entries |-> DecField(entries[i], "amount")])
                seller_nifs == {DictGet(p, "nif", None) : p \in Range(DictGet(m, "sellers", None).v)}
                breakdown_nifs == {DictGet(pb, "seller_nif", None) : pb \in Range(price_breakdown)}
            IN /\ \A i \in DOMAIN properties :
                    ~Differ(total(properties[i]),
                            DecField(properties[i], "declared_value_escritura"))
               /\ breakdown_nifs \subseteq seller_nifs
      [] class = "LiquidationData" ->
            LET exp_base_liq == DecSub(DecField(m, "base_imponible"), DecField(m, "reduccion"))
                exp_cuota == LET product == DecMul(DecField(m, "base_liquidable"), DecField(m, "tipo"))
                             IN Dec(product.m, product.e + 2)
                rebate == DecMul(DecField(m, "cuota"), DecField(m, "bonificacion"))
                exp_a_ing == DecSub(DecField(m, "cuota"), Dec(rebate.m, rebate.e + 2))
                exp_deuda == DecAdd(DecField(m, "a_ingresar"), DecField(m, "intereses_mora"))
            IN /\ ~Differ(DecField(m, "base_liquidable"), exp_base_liq)
               /\ ~Differ(DecField(m, "cuota"), exp_cuota)
               /\ ~Differ(DecField(m, "a_ingresar"), exp_a_ing)
               /\ ~Differ(DecField(m, "deuda_tributaria"), exp_deuda)
      [] class = "Modelo600" ->
            LET form_type == DictGet(m, "form_type", None).v
                nature == DictGet(m, "nature", None).v
                type_of_asset == DictGet(DictGet(m, "property", None), "type_of_asset", None).v
                transmitentes == DictGet(m, "transmitentes", None).v
                total == DecSum([i \in DOMAIN transmitentes |->
                                    DecField(transmitentes[i], "transmission_coefficient")])
            IN /\ IF form_type = <<"6", "0", "0", "U">>
                  THEN /\ nature = <<"b", "i", "e", "n", "e", "s", "_", "i", "n", "m", "u", "e", "b", "l", "e", "s", "_", "u", "r", "b", "a", "n", "o", "s">>
                       /\ type_of_asset = <<"V", "i", "v", "i", "e", "n", "d", "a">>
                  ELSE /\ nature = <<"b", "i", "e", "n", "e", "s", "_", "i", "n", "m", "u", "e", "b", "l", "e", "s", "_", "r", "u", "s", "t", "i", "c", "o", "s">>
                       /\ type_of_asset = <<"R", "u", "s", "t", "i", "c", "a">>
               /\ ~Differ(total, Dec(100, 0))
      [] OTHER -> TRUE

\* class.model_validate(value): the fields validated in declaration order
\* (an absent key takes its default, extra keys are ignored), then the model
\* validators of the class
RECURSIVE Validate(_, _), ValidateField(_, _)
Validated(class, schema, results) ==
    IF \E i \in DOMAIN results : ~results[i].ok THEN Invalid
    ELSE LET m == Dict([i \in DOMAIN schema |-> <<schema[i].name, results[i].value>>])
         IN IF ModelCheck(class, m) THEN Valid(m) ELSE Invalid

Validate(class, value) ==
    IF value.t # "dict" THEN Invalid
    ELSE Validated(class, Schema(class),
                   [i \in DOMAIN Schema(class) |->
                       ValidateField(Schema(class)[i],
                                     DictGet(value, Schema(class)[i].name, Absent))])

ValidateField(f, value) ==
    IF value.t = "absent"
    THEN CASE f.presence = "required" -> Invalid
           [] f.presence = "optional" -> Valid(None)
           [] OTHER -> Valid(Dcm(f.of))
    ELSE IF value.t = "none"
    THEN IF f.presence = "optional" THEN Valid(None) ELSE Invalid
    ELSE CASE f.kind = "str" ->
                 IF /\ value.t = "str"
                    /\ Len(value.v) >= f.lo
                    /\ (f.hi < 0 \/ Len(value.v) <= f.hi)
                 THEN FieldCheck(f.of, value.v) ELSE Invalid
           [] f.kind \in {"decimal", "positive"} ->
                 LET d == IF value.t \in {"str", "num", "dec"}
                          THEN DecimalOf(Strip(value.v)) ELSE NoDecimal
                 IN IF /\ d.k = "num"
                       /\ IF f.kind = "positive" THEN d.m > 0 ELSE d.m >= f.lo * Pow10(d.e)
                       /\ (f.hi < 0 \/ d.m <= f.hi * Pow10(d.e))
                    THEN Valid(Dcm(Strip(value.v))) ELSE Invalid
           [] f.kind = "enum" ->
                 IF value.t = "str" /\ value.v \in f.of THEN Valid(value) ELSE Invalid
           [] f.kind = "bool" ->
                 IF value.t = "num" /\ value.v \in {<<"0">>, <<"1">>}
                 THEN Valid(value) ELSE Invalid
           [] f.kind = "model" -> Validate(f.of, value)
           [] OTHER ->
                 IF value.t = "list" /\ Len(value.v) >= f.lo
                 THEN LET items == [i \in DOMAIN value.v |-> Validate(f.of, value.v[i])]
                      IN IF \E i \in DOMAIN items : ~items[i].ok THEN Invalid
                         ELSE Valid(List([i \in DOMAIN items |-> items[i].value]))
                 ELSE Invalid

\* ------------------------------------------------- merge_chunk_extractions

\* one turn of the loop over model.model_fields: the field's values
\* collected and merged into merged_dict, or the exception of the vote
MergeField ==
    /\ pc = "merge"
    /\ Len(merged_dict.v) < Len(Schema(model))
    /\ LET field == Schema(model)[Len(merged_dict.v) + 1]
           merged == MergeValues(Values(chunk_results, field.name), field.kind = "list")
       IN IF merged.raise = "none"
          THEN /\ merged_dict' = DictSet(merged_dict, field.name, merged.value)
               /\ UNCHANGED <<pc, error>>
          ELSE /\ pc' = "raised"
               /\ error' = merged.raise
               /\ UNCHANGED merged_dict
    /\ UNCHANGED <<stepVars, compareVars, model, chunk_results, result, flowVars>>

\* if name in merged_dict and merged_dict[name]:
\*     merged_dict[name] = deduplicate_persons or _properties(merged_dict[name])
PostProcess(merged, name) ==
    IF merged.raise # "none" THEN merged
    ELSE IF Has(merged.value, name) /\ Bool(DictGet(merged.value, name, None))
    THEN LET items == DictGet(merged.value, name, None).v
             deduplicated == IF name = "properties" THEN deduplicate_properties(items)
                             ELSE deduplicate_persons(items)
         IN IF deduplicated.raise # "none" THEN deduplicated
            ELSE Ok(DictSet(merged.value, name, deduplicated.value))
    ELSE merged

\* the post-processing of sellers, buyers and properties
Deduplicate ==
    /\ pc = "merge"
    /\ Len(merged_dict.v) = Len(Schema(model))
    /\ \E sellers \in {PostProcess(Ok(merged_dict), "sellers")} :
       \E buyers \in {PostProcess(sellers, "buyers")} :
       \E properties \in {PostProcess(buyers, "properties")} :
          IF properties.raise = "none"
          THEN /\ merged_dict' = properties.value
               /\ pc' = "validate"
               /\ UNCHANGED error
          ELSE /\ pc' = "raised"
               /\ error' = properties.raise
               /\ UNCHANGED merged_dict
    /\ UNCHANGED <<stepVars, compareVars, model, chunk_results, result, flowVars>>

\* return model.model_validate(merged_dict), or on any exception of the
\* validation model.model_construct(**merged_dict)
ReturnMerged ==
    /\ pc = "validate"
    /\ LET validated == Validate(model, merged_dict)
       IN result' = IF validated.ok
                    THEN [kind |-> "validated", fields |-> validated.value]
                    ELSE [kind |-> "constructed", fields |-> merged_dict]
    /\ pc' = "returned"
    /\ UNCHANGED <<stepVars, compareVars, error, model, chunk_results, merged_dict, flowVars>>

NextMerge ==
    \/ MergeField
    \/ Deduplicate
    \/ ReturnMerged

\* ------------------------------------------------ the chunks that are merged

MaxVotes == 5
MaxChunks == 2

\* what a chunk may hold as date_of_sale: two dates, a number, a blank text
VotePool == {Str(<<"1", "0", "-", "0", "2", "-", "2", "0", "2", "5">>), Str(<<"1", "1", "-", "0", "2", "-", "2", "0", "2", "5">>), Num(<<"2", "0", "2", "5">>), Str(<<" ">>)}

\* the chunks of the vote: only the date of sale extracted
VoteInputs ==
    UNION {[1..n -> {Dict(<<<<"date_of_sale", v>>>>) : v \in VotePool}] : n \in 1..MaxVotes}

NotaryGil == Dict(<<<<"name", Str(<<"J", "u", "a", "n", " ", "G", "i", "l">>)>>, <<"college", Str(<<"M", "a", "d", "r", "i", "d">>)>>>>)
NotarySanz == Dict(<<<<"name", Str(<<"E", "v", "a", " ", "S", "a", "n", "z">>)>>, <<"college", Str(<<"M", "a", "d", "r", "i", "d">>)>>>>)

Ana == Dict(<<<<"role", Str(<<"s", "e", "l", "l", "e", "r">>)>>, <<"full_name", Str(<<"A", "n", "a", " ", "R", "u", "i", "z">>)>>, <<"nif", Str(<<"1", "2", "3", "4", "5", "6", "7", "8", "Z">>)>>>>)
AnaCaps == Dict(<<<<"role", Str(<<"s", "e", "l", "l", "e", "r">>)>>, <<"full_name", Str(<<"A", "N", "A", " ", "R", "U", "I", "Z">>)>>, <<"nif", Str(<<"8", "7", "6", "5", "4", "3", "2", "1", "X">>)>>>>)
Nameless == Dict(<<<<"role", Str(<<"s", "e", "l", "l", "e", "r">>)>>, <<"nif", Str(<<"1", "1", "2", "2", "3", "3", "4", "4", "B">>)>>>>)
Luis == Dict(<<<<"role", Str(<<"b", "u", "y", "e", "r">>)>>, <<"full_name", Str(<<"L", "u", "i", "s", " ", "M", "o", "r", "a">>)>>, <<"nif", Str(<<"4", "4", "3", "3", "2", "2", "1", "1", "D">>)>>>>)

Flat ==
    Dict(<<<<"id", Str(<<"1">>)>>, <<"type", Str(<<"u", "r", "b", "a", "n", "a">>)>>, <<"address", Str(<<"C", "a", "l", "l", "e", " ", "S", "o", "l", " ", "1">>)>>,
           <<"ref_catastral", Str(RefA)>>, <<"declared_value_escritura", Num(<<"1", "0", "0">>)>>>>)
NullRef ==
    Dict(<<<<"id", Str(<<"2">>)>>, <<"address", Str(<<"P", "l", "a", "z", "a", " ", "R", "e", "y", " ", "2">>)>>, <<"ref_catastral", None>>>>)
Slash ==
    Dict(<<<<"id", Str(<<"3">>)>>, <<"address", Str(<<"A", "v", ".", " ", "L", "e", "o", "n", "/", "A", "r", "a", "g", "o", "n", " ", "5">>)>>,
           <<"ref_catastral", Str(RefX)>>>>)
Bare == Dict(<<<<"id", Str(<<"4">>)>>, <<"declared_value_escritura", Num(<<"5", "0">>)>>>>)

Payment ==
    Dict(<<<<"property_id", Str(<<"1">>)>>, <<"seller_nif", Str(<<"1", "2", "3", "4", "5", "6", "7", "8", "Z">>)>>, <<"amount", Num(<<"1", "0", "0">>)>>>>)
Expenses ==
    Dict(<<<<"who_pays_taxes", Str(<<"b", "u", "y", "e", "r">>)>>,
           <<"incremento_valor_terrenos_urbanos", Str(<<"s", "e", "l", "l", "e", "r">>)>>>>)

\* chunks of a deed: the whole record, two headings that disagree, the
\* parties, properties the grouping mishandles, and a failed extraction
EscrituraChunks ==
    {Dict(<<<<"notary", NotaryGil>>, <<"date_of_sale", Str(<<"1", "0", "-", "0", "2", "-", "2", "0", "2", "5">>)>>,
            <<"sellers", List(<<Ana>>)>>, <<"buyers", List(<<Luis>>)>>,
            <<"properties", List(<<Flat>>)>>, <<"price_breakdown", List(<<Payment>>)>>,
            <<"expenses_clause", Expenses>>>>),
     Dict(<<<<"notary", NotaryGil>>, <<"date_of_sale", Str(<<"1", "0", "-", "0", "2", "-", "2", "0", "2", "5">>)>>>>),
     Dict(<<<<"notary", NotarySanz>>, <<"date_of_sale", Str(<<"1", "1", "-", "0", "2", "-", "2", "0", "2", "5">>)>>>>),
     Dict(<<<<"sellers", List(<<Ana, AnaCaps, Nameless>>)>>, <<"buyers", List(<<Luis>>)>>>>),
     Dict(<<<<"properties", List(<<NullRef>>)>>>>),
     Dict(<<<<"properties", List(<<Slash>>)>>>>),
     Dict(<<<<"properties", List(<<Flat, Bare>>)>>>>),
     Dict(<<>>)}

\* the liquidation of a tax form with its numbers of a kind: "num" as the
\* JSON backend gives them, "dec" (Decimals) as a validated record dumps them
Liquidation(kind) ==
    Dict(<<<<"valor_declarado", [t |-> kind, v |-> <<"1", "0", "0">>]>>, <<"base_imponible", [t |-> kind, v |-> <<"1", "0", "0">>]>>,
           <<"base_liquidable", [t |-> kind, v |-> <<"1", "0", "0">>]>>, <<"tipo", [t |-> kind, v |-> <<"2">>]>>,
           <<"cuota", [t |-> kind, v |-> <<"2">>]>>, <<"a_ingresar", [t |-> kind, v |-> <<"2">>]>>,
           <<"deuda_tributaria", [t |-> kind, v |-> <<"2">>]>>>>)

TaxForm(kind) ==
    Dict(<<<<"form_type", Str(<<"6", "0", "0", "U">>)>>, <<"nature", Str(<<"b", "i", "e", "n", "e", "s", "_", "i", "n", "m", "u", "e", "b", "l", "e", "s", "_", "u", "r", "b", "a", "n", "o", "s">>)>>,
           <<"sujeto_pasivo", Luis>>,
           <<"transmitentes",
             List(<<Dict(<<<<"nif", Str(<<"1", "2", "3", "4", "5", "6", "7", "8", "Z">>)>>, <<"name", Str(<<"A", "n", "a", " ", "R", "u", "i", "z">>)>>,
                           <<"transmission_coefficient", [t |-> kind, v |-> <<"1", "0", "0">>]>>>>)>>)>>,
           <<"operation", Dict(<<<<"concepto", Str(<<"0", "0", "1">>)>>, <<"fecha_devengo", Str(<<"1", "0", "-", "0", "2", "-", "2", "0", "2", "5">>)>>>>)>>,
           <<"property",
             Dict(<<<<"ref_catastral", Str(RefA)>>, <<"address", Str(<<"C", "a", "l", "l", "e", " ", "S", "o", "l", " ", "1">>)>>,
                    <<"type_of_asset", Str(<<"V", "i", "v", "i", "e", "n", "d", "a">>)>>, <<"percent_transferred", [t |-> kind, v |-> <<"1", "0", "0">>]>>>>)>>,
           <<"liquidation_data", Liquidation(kind)>>>>)

\* what model.model_construct() dumps: the fields that have a default
EmptyRecord(class) ==
    LET schema == Schema(class)
        defaulted(f) == f.presence # "required"
        fields == SelectSeq(schema, defaulted)
    IN Dict([i \in DOMAIN fields |-> <<fields[i].name, None>>])

Modelo600Chunks == {TaxForm("num"), TaxForm("dec"), Dict(<<>>), EmptyRecord("Modelo600")}

\* property entries of two chunks: one reference written three ways with
\* its value and surface in plain and in Spanish format, and one address
\* without a reference written two ways
PropertyPool ==
    {Dict(<<<<"id", Str(<<"1">>)>>, <<"ref_catastral", Str(RefA)>>,
            <<"declared_value", Str(<<"1", "0", "0">>)>>, <<"surface_area", Str(<<"8", "0">>)>>>>),
     Dict(<<<<"id", Str(<<"1">>)>>, <<"ref_catastral", Str(RefARaw)>>,
            <<"declared_value", Str(<<"1", "0", "0">>)>>>>),
     Dict(<<<<"id", Str(<<"1">>)>>, <<"ref_catastral", Str(RefA)>>,
            <<"declared_value", Str(<<"1", "5", "0", ",", "5">>)>>, <<"surface_area", Num(<<"9", "0">>)>>>>),
     Dict(<<<<"id", Str(<<"1">>)>>, <<"ref_catastral", Str(RefA)>>,
            <<"declared_value", Str(<<"1", ".", "2", "3", "4", ",", "5">>)>>>>),
     Dict(<<<<"id", Str(<<"1">>)>>, <<"ref_catastral", Str(RefA)>>,
            <<"declared_value", Num(<<"2", "0", "0", "0">>)>>, <<"surface_area", None>>>>),
     Dict(<<<<"id", Str(<<"2">>)>>, <<"address", Str(<<"C", "a", "l", "l", "e", " ", "S", "o", "l", " ", "1">>)>>,
            <<"declared_value", Str(<<"1", "0", "0">>)>>>>),
     Dict(<<<<"id", Str(<<"2">>)>>, <<"address", Str(<<"C", "A", "L", "L", "E", " ", "S", "O", "L", " ", "1", " ">>)>>,
            <<"declared_value", Num(<<"2", "0", "0", "0">>)>>>>)}

\* chunks that hold one property entry each
PropertyChunks == {Dict(<<<<"properties", List(<<entry>>)>>>>) : entry \in PropertyPool}

PropertyInputs == UNION {[1..n -> PropertyChunks] : n \in 1..MaxChunks}

MergeInputs ==
    ({"Escritura"} \X VoteInputs)
    \cup ({"Escritura"} \X UNION {[1..n -> EscrituraChunks] : n \in 1..MaxChunks})
    \cup ({"Modelo600"} \X UNION {[1..n -> Modelo600Chunks] : n \in 1..MaxChunks})
    \cup ({"Escritura"} \X PropertyInputs)

\* the call merge_chunk_extractions(chunk_results, model)
InitMerge ==
    /\ data = [escrituras |-> <<>>, tax_forms |-> <<>>]
    /\ tax_by_catastral = <<>>
    /\ matched_refs = {}
    /\ reports = <<>>
    /\ report = Idle
    /\ matches = <<>>
    /\ cursor = [k |-> 1, m |-> 1, o |-> 1]
    /\ fuzzy_log = <<>>
    /\ error = "none"
    /\ pc = "merge"
    /\ \E input \in MergeInputs : model = input[1] /\ chunk_results = input[2]
    /\ merged_dict = Dict(<<>>)
    /\ result = NoResult
    /\ NoFlow
    /\ NoStep

SpecMerge == InitMerge /\ [][NextMerge]_vars

\* ------------------------------------------ the chunk map-reduce flow
\* src/src/pipeline.py: Pipeline.run over map_llm_extraction and
\* reduce_merge_extractions

MaxOcrChunks == 3

\* no comparison is running
NoCompare ==
    /\ data = [escrituras |-> <<>>, tax_forms |-> <<>>]
    /\ tax_by_catastral = <<>>
    /\ matched_refs = {}
    /\ reports = <<>>
    /\ report = Idle
    /\ matches = <<>>
    /\ cursor = [k |-> 1, m |-> 1, o |-> 1]
    /\ fuzzy_log = <<>>

\* extract_from_chunk(result['text'], model): the record extracted from the
\* text of a chunk
Structured(ocr_result) ==
    [kind |-> "structured", chunk |-> ocr_result.chunk, text |-> ocr_result.text]

\* model.model_construct(): the empty record
EmptyModel == [kind |-> "empty", chunk |-> 0, text |-> <<>>]

\* what the try block of one chunk leaves in the list: the extraction raises
\* before the append, the dump to /tmp/chunk_N_extracted.json raises after it
AfterChunk(extractions, ocr_result, outcome) ==
    CASE outcome = "dumped" -> Append(extractions, Structured(ocr_result))
      [] outcome = "extraction_raised" -> Append(extractions, EmptyModel)
      [] outcome = "dump_raised" ->
            Append(Append(extractions, Structured(ocr_result)), EmptyModel)

\* lines 115-125: one pass of the loop of map_llm_extraction
MapChunk ==
    /\ pc = "map"
    /\ chunk < Len(ocr_results)
    /\ \E outcome \in {"dumped", "extraction_raised", "dump_raised"} :
          partial_extractions' =
              AfterChunk(partial_extractions, ocr_results[chunk + 1], outcome)
    /\ chunk' = chunk + 1
    /\ UNCHANGED <<stepVars, compareVars, pc, error, mergeVars, ocr_results, received, pdf_path,
                   calls, ocr_text, extracted, validation, response>>

\* lines 127-128 and Pipeline.run line 39: the list goes to the next step
MapReturn ==
    /\ pc = "map"
    /\ chunk = Len(ocr_results)
    /\ pc' = "reduce"
    /\ UNCHANGED <<stepVars, compareVars, error, mergeVars, flowVars>>

\* lines 131-136: reduce_merge_extractions hands the list to the merge
ReduceMerge ==
    /\ pc = "reduce"
    /\ received' = partial_extractions
    /\ pc' = "reduced"
    /\ UNCHANGED <<stepVars, compareVars, error, mergeVars, ocr_results, partial_extractions, chunk,
                   pdf_path, calls, ocr_text, extracted, validation, response>>

NextMapReduce == MapChunk \/ MapReturn \/ ReduceMerge

ChunkTexts == {<<"a">>, <<"b">>}

\* the OCR results of map_ocr_chunks: chunk numbers from 1, in order
OcrInputs ==
    {[i \in 1..n |-> [chunk |-> i, text |-> texts[i]]] :
        <<n, texts>> \in UNION {{<<m, t>> : t \in [1..m -> ChunkTexts]} :
                                  m \in 0..MaxOcrChunks}}

InitMapReduce ==
    /\ NoCompare
    /\ NoMerge
    /\ error = "none"
    /\ pc = "map"
    /\ ocr_results \in OcrInputs
    /\ partial_extractions = <<>>
    /\ chunk = 0
    /\ received = <<>>
    /\ pdf_path = <<>>
    /\ calls = <<>>
    /\ ocr_text = NoValue
    /\ extracted = NoValue
    /\ validation = NoValue
    /\ response = NoResponse
    /\ NoStep

SpecMapReduce == InitMapReduce /\ [][NextMapReduce]_vars

\* ------------------------------------------ run_escritura_pipeline
\* src/src/ui/adapters.py, called with ocr_fn, llm_fn and validate_fn given

\* a value of the pipeline: a text, a plain dict, or an object that has a
\* model_dump method (fields: what model_dump returns)
Text(s) == [kind |-> "text", fields |-> s]
Plain(fields) == [kind |-> "dict", fields |-> fields]
Model(fields) == [kind |-> "model", fields |-> fields]

\* the value taken as it is, model_dump never called
model_dump_skipped(value) == value

\* getattr(value, "model_dump", lambda: value)()
model_dump_or_self(value) ==
    IF value.kind = "model" THEN Plain(value.fields) ELSE value

\* one call of an injected function
Call(fn, arg) == [fn |-> fn, arg |-> arg]

PdfPaths == {<<"a">>, <<"b">>}
OcrOutputs == {Text(<<"x">>), Text(<<"y">>)}
LlmOutputs == {Plain(<<"l">>), Model(<<"l">>), Text(<<"l">>)}
ValidateOutputs == {Plain(<<"v">>), Model(<<"v">>)}

\* an injected function returns, or raises and the exception leaves the call
Raises ==
    /\ pc' = "raised"
    /\ error' = "Exception"

\* lines 36-45: ocr_text = ocr_callable(pdf_path)
CallOcr ==
    /\ pc = "ocr"
    /\ calls' = Append(calls, Call("ocr", Text(pdf_path)))
    /\ \/ /\ ocr_text' \in OcrOutputs
          /\ pc' = "llm"
          /\ UNCHANGED error
       \/ /\ Raises
          /\ UNCHANGED ocr_text
    /\ UNCHANGED <<stepVars, compareVars, mergeVars, ocr_results, partial_extractions, chunk,
                   received, pdf_path, extracted, validation, response>>

\* lines 47-55: extracted = llm_step(ocr_text), llm_step the given llm_fn
CallLlm ==
    /\ pc = "llm"
    /\ calls' = Append(calls, Call("llm", ocr_text))
    /\ \/ /\ extracted' \in LlmOutputs
          /\ pc' = "validation"
          /\ UNCHANGED error
       \/ /\ Raises
          /\ UNCHANGED extracted
    /\ UNCHANGED <<stepVars, compareVars, mergeVars, ocr_results, partial_extractions, chunk,
                   received, pdf_path, ocr_text, validation, response>>

\* lines 57-60: validated = validate_callable(extracted)
CallValidate ==
    /\ pc = "validation"
    /\ calls' = Append(calls, Call("validation", extracted))
    /\ \/ /\ validation' \in ValidateOutputs \cup {extracted}
          /\ pc' = "respond"
          /\ UNCHANGED error
       \/ /\ Raises
          /\ UNCHANGED validation
    /\ UNCHANGED <<stepVars, compareVars, mergeVars, ocr_results, partial_extractions, chunk,
                   received, pdf_path, ocr_text, extracted, response>>

\* lines 62-75: the dict returned; the cache lookups and the clock differences
\* are what the environment made them
ReturnResponse ==
    /\ pc = "respond"
    /\ \E ocr_cached \in BOOLEAN, llm_cached \in BOOLEAN,
          ocr_time \in 0..1, llm_time \in 0..1, validation_time \in 0..1 :
          response' =
              [ocr_text |-> ocr_text,
               extracted |-> model_dump_or_self(extracted),
               validation |-> model_dump_or_self(validation),
               meta |-> [ocr_cached |-> ocr_cached, llm_cached |-> llm_cached,
                         timings |-> [ocr |-> ocr_time, llm |-> llm_time,
                                      validation |-> validation_time]]]
    /\ pc' = "returned"
    /\ UNCHANGED <<stepVars, compareVars, error, mergeVars, ocr_results, partial_extractions, chunk,
                   received, pdf_path, calls, ocr_text, extracted, validation>>

NextAdapter == CallOcr \/ CallLlm \/ CallValidate \/ ReturnResponse

InitAdapter ==
    /\ NoCompare
    /\ NoMerge
    /\ error = "none"
    /\ pc = "ocr"
    /\ ocr_results = <<>>
    /\ partial_extractions = <<>>
    /\ chunk = 0
    /\ received = <<>>
    /\ pdf_path \in PdfPaths
    /\ calls = <<>>
    /\ ocr_text = NoValue
    /\ extracted = NoValue
    /\ validation = NoValue
    /\ response = NoResponse
    /\ NoStep

SpecAdapter == InitAdapter /\ [][NextAdapter]_vars

\* ------------------------------------------------------------- the claims

IsOrphanReport(rep) ==
    \E i \in DOMAIN rep.issues : rep.issues[i].code = "ORPHAN_TAX_FORM"

\* the index keys reported as orphans in the result
OrphanRefs == {reports[i].ref_catastral : i \in {j \in DOMAIN reports : IsOrphanReport(reports[j])}}

\* the normalized references of the deed properties of the input
DeedRefs ==
    {normalize_catastral_ref(
        Get(data.escrituras[ep[1]].properties[ep[2]].ref_catastral, Str(<<>>))) :
            ep \in Range(DeedProps(data))}

\* the index keys some deed property was matched to: by its own reference, or
\* by the fuzzy fallback as its log line records
MatchedKeys ==
    (DeedRefs \cap IndexKeys(tax_by_catastral)) \cup {fuzzy_log[i][2] : i \in DOMAIN fuzzy_log}

\* C1: when the call returns, the keys reported as ORPHAN_TAX_FORM are
\* exactly the index keys that no deed property matched, exactly or fuzzily.
C1_OrphansAreTheUnmatchedKeys ==
    pc = "done" => OrphanRefs = IndexKeys(tax_by_catastral) \ MatchedKeys

\* C2: the call never leaves by an exception, whatever the records hold.
C2_NeverRaises == pc # "raised" /\ error = "none"

\* C3: merge_chunk_extractions never leaves by an exception and returns a
\* record: the validated one, or when validation fails the unvalidated one
\* that holds the merged field values.
C3_MergeAlwaysReturns ==
    /\ model # "none" => pc # "raised"
    /\ pc = "returned" =>
          /\ result.kind \in {"validated", "constructed"}
          /\ result.kind = "constructed" => result.fields = merged_dict

\* two values are equal: two dicts whatever the order of their keys
SameValue(a, b) == JsonRoundTrip(a) = JsonRoundTrip(b)

Occurrences(values, value) ==
    Cardinality({i \in DOMAIN values : SameValue(values[i], value)})

\* of the values with the most occurrences, the one seen in the latest chunk
LatestOfMostFrequent(values) ==
    LET most(i) == \A j \in DOMAIN values :
                       Occurrences(values, values[j]) <= Occurrences(values, values[i])
    IN values[CHOOSE i \in DOMAIN values :
                  most(i) /\ \A j \in DOMAIN values : most(j) => j <= i]

ScalarFields == {i \in DOMAIN merged_dict.v : Schema(model)[i].kind # "list"}

\* C4: every scalar field the merge has set holds a value with the most
\* occurrences among the chunks' non-missing values, of several such values
\* the one of the latest chunk, and None when there is no value.
C4_ScalarIsLatestOfMostFrequent ==
    \A i \in ScalarFields :
        LET values == Values(chunk_results, merged_dict.v[i][1])
        IN IF values = <<>> THEN merged_dict.v[i][2] = None
           ELSE SameValue(merged_dict.v[i][2], LatestOfMostFrequent(values))

\* the merge of N >= 1 copies of one chunk has returned
MergedCopies ==
    /\ pc = "returned"
    /\ \A i \in DOMAIN chunk_results : chunk_results[i] = chunk_results[1]

\* the value of a field in the first chunk, a skipped value read as missing
ChunkValue(i) ==
    LET value == DictGet(chunk_results[1], Schema(model)[i].name, None)
    IN IF ~Skipped(value) THEN value
       ELSE IF Schema(model)[i].kind = "list" THEN List(<<>>) ELSE None

\* C5: the merge of N copies of a chunk holds no entry of a list of the
\* chunk more often than the chunk does, and (in the unvalidated record)
\* every scalar as the chunk has it.
C5_CopiesMergeToOne ==
    MergedCopies =>
        \A i \in DOMAIN Schema(model) :
            LET mine == ChunkValue(i)
                merged == DictGet(result.fields, Schema(model)[i].name, None)
            IN IF Schema(model)[i].kind = "list"
               THEN \A entry \in Range(mine.v) : Count(merged.v, entry) <= Count(mine.v, entry)
               ELSE result.kind = "constructed" => SameValue(merged, mine)

\* C6: the merge of a single chunk returns (in the unvalidated record) every
\* field as the chunk has it: no entry dropped, added or rewritten.
C6_SingletonIsUnchanged ==
    pc = "returned" /\ Len(chunk_results) = 1 /\ result.kind = "constructed" =>
        \A i \in DOMAIN Schema(model) :
            SameValue(DictGet(result.fields, Schema(model)[i].name, None), ChunkValue(i))

\* error > warning > ok
Rank(severity) ==
    CASE severity = "ok" -> 0 [] severity = "warning" -> 1 [] severity = "error" -> 2

\* the maximum severity among the issues; ok when there are none
MaxSeverity(issues) ==
    IF issues = <<>> THEN "ok"
    ELSE CHOOSE severity \in {issues[i].severity : i \in DOMAIN issues} :
            \A j \in DOMAIN issues : Rank(issues[j].severity) <= Rank(severity)

\* C7: after any sequence of add_issue calls the status of the report is the
\* maximum severity among its issues (ok when there are none), each call
\* only appends to the issue list, and no call lowers the status.
C7_StatusIsMaxSeverity ==
    /\ [](pc = "report" => report.status = MaxSeverity(report.issues))
    /\ [][pc = "report" =>
            /\ Len(report'.issues) >= Len(report.issues)
            /\ SubSeq(report'.issues, 1, Len(report.issues)) = report.issues
            /\ Rank(report'.status) >= Rank(report.status)]_vars

\* an error followed by lesser issues: the status stays at error
C7_Witness ==
    /\ pc = "report"
    /\ Len(report.issues) >= 3
    /\ report.issues[1].severity = "error"
    /\ report.issues[2].severity = "warning"
    /\ report.issues[Len(report.issues)].severity = "ok"
    /\ report.status = "error"

\* the normalized reference of the k-th deed property
DeedRef(k) ==
    LET ep == DeedProps(data)[k]
    IN normalize_catastral_ref(
            Get(data.escrituras[ep[1]].properties[ep[2]].ref_catastral, Str(<<>>)))

\* deed property k has neither an exact nor a fuzzy match among the keys
Unmatched(k) ==
    \E ref \in {DeedRef(k)} :
        /\ ref \notin IndexKeys(tax_by_catastral)
        /\ \A key \in IndexKeys(tax_by_catastral) : ~fuzzy_match_catastral(ref, key)

\* C8: a deed property with neither an exact nor a fuzzy match among the
\* tax-form keys has, in the result, a report with exactly one issue,
\* MISSING_TAX_FORM, and no matched forms, and the call never runs the field
\* rules for it.
C8_UnmatchedIsTerminal ==
    /\ pc = "done" =>
          \A k \in DOMAIN DeedProps(data) :
              Unmatched(k) =>
                  /\ Len(reports[k].issues) = 1
                  /\ reports[k].issues[1].code = "MISSING_TAX_FORM"
                  /\ reports[k].matched_forms = <<>>
    /\ pc \in {"compare", "raised"} => ~Unmatched(cursor.k)

\* an unmatched deed property next to a non-empty index, its report made
C8_Witness ==
    /\ pc = "done"
    /\ tax_by_catastral # <<>>
    /\ \E k \in DOMAIN DeedProps(data) :
          /\ Unmatched(k)
          /\ DeedRef(k) # <<>>
          /\ Len(reports[k].issues) = 1
          /\ reports[k].issues[1].code = "MISSING_TAX_FORM"

\* the tax-form properties of the input whose normalized reference is key
TaxPropsWithRef(key) ==
    UNION {{<<f, p>> : p \in {q \in DOMAIN data.tax_forms[f].properties :
                normalize_catastral_ref(
                    Get(data.tax_forms[f].properties[q].ref_catastral, Str(<<>>))) = key}} :
           f \in DOMAIN data.tax_forms}

\* the reports of the result that carry the reference key
ReportsWithRef(key) == {i \in DOMAIN reports : reports[i].ref_catastral = key}

\* C9: when the call returns, every tax-form property whose reference was
\* matched by no deed property has exactly one report, whose only issue is
\* ORPHAN_TAX_FORM with severity warning, and the status of that report is
\* warning.
C9_OrphanIsOneWarningReport ==
    pc = "done" =>
        \A key \in IndexKeys(tax_by_catastral) \ MatchedKeys :
            /\ Cardinality(ReportsWithRef(key)) = Cardinality(TaxPropsWithRef(key))
            /\ \A i \in ReportsWithRef(key) :
                  /\ Len(reports[i].issues) = 1
                  /\ reports[i].issues[1].code = "ORPHAN_TAX_FORM"
                  /\ reports[i].issues[1].severity = "warning"
                  /\ reports[i].status = "warning"

\* two tax-form properties of two forms share a key no deed property
\* matched: each has its report
C9_Witness ==
    /\ pc = "done"
    /\ Len(data.tax_forms) = 2
    /\ \E key \in IndexKeys(tax_by_catastral) \ MatchedKeys :
          /\ Cardinality(TaxPropsWithRef(key)) = 2
          /\ Cardinality(ReportsWithRef(key)) = 2

\* the seller IDs of a side: the normalized IDs of the sellers that have one
SellerIds(persons) == NifSet(persons, "seller_nif") \ {<<>>}

\* the deed seller IDs missing from the form of the match being compared
MissingSellers ==
    LET ep == DeedProps(data)[cursor.k]
    IN SellerIds(data.escrituras[ep[1]].sellers)
       \ SellerIds(data.tax_forms[matches[Min2(cursor.m, Len(matches))].form].sellers)

SellerIssues(issues) ==
    LET isSeller(i) == i.code = "SELLER_MISMATCH" IN SelectSeq(issues, isSeller)

\* C10: the rules run on one matched pair add exactly one SELLER_MISMATCH
\* issue, whose message lists all the missing IDs, when the deed seller IDs
\* minus the form seller IDs is non-empty, and none when it is empty.
C10_OneSellerIssuePerPair ==
    [][(pc = "compare" /\ cursor.m <= Len(matches) /\ cursor'.m = cursor.m + 1) =>
        LET added == SellerIssues(SubSeq(report'.issues, Len(report.issues) + 1,
                                         Len(report'.issues)))
        IN IF MissingSellers = {} THEN added = <<>>
           ELSE /\ Len(added) = 1
                /\ added[1].message.arg \in {SetRepr(o) : o \in Orders(MissingSellers)}]_vars

\* a pair with two missing seller IDs compared: one issue names both
C10_Witness ==
    /\ pc = "compare"
    /\ cursor.m = 2
    /\ Len(matches) = 1
    /\ \E o \in Orders(MissingSellers) :
          /\ Len(o) = 2
          /\ Len(SellerIssues(report.issues)) = 1
          /\ SellerIssues(report.issues)[1].message.arg = SetRepr(o)

\* the pair the rules are about to run on
PairDeed == data.escrituras[DeedProps(data)[cursor.k][1]]
PairProp == PairDeed.properties[DeedProps(data)[cursor.k][2]]
PairForm == data.tax_forms[matches[Min2(cursor.m, Len(matches))].form]
PairTaxProp == ItemProperty(data, matches[Min2(cursor.m, Len(matches))])

\* a step that runs the rules on a pair, and one that ran them to the end
RulesRun == pc = "compare" /\ cursor.m <= Len(matches)
RulesDone == RulesRun /\ cursor'.m = cursor.m + 1

\* the issues a step added to the report, and those with a code
Added == SubSeq(report'.issues, Len(report.issues) + 1, Len(report'.issues))
WithCode(issues, code) ==
    LET hasCode(i) == i.code = code IN SelectSeq(issues, hasCode)

\* neither side is missing, unparseable or zero, and the two values differ by
\* more than the tolerance
DifferBeyond(e_val, t_val, tolerance) ==
    LET d1 == parse_decimal(e_val)
        d2 == parse_decimal(t_val)
    IN /\ d1.k # "none" /\ d2.k # "none"
       /\ ~DecIsZero(d1) /\ ~DecIsZero(d2)
       /\ AbsDiffVs(d1, d2, tolerance) = "gt"

\* C11: on a pair that differs in nothing but the declared values the rules
\* run to the end, and they add one VALUE_MISMATCH error when both values
\* parse, neither is zero and they differ by more than 0.01, and no
\* VALUE_MISMATCH issue otherwise.
C11_ValueIssueIffDiffer ==
    [][(RulesRun /\ data \in ValueInputs) =>
        /\ RulesDone
        /\ LET added == WithCode(Added, "VALUE_MISMATCH")
           IN IF DifferBeyond(PairProp.declared_value, PairTaxProp.declared_value, Dec(1, 2))
              THEN Len(added) = 1 /\ added[1].severity = "error"
              ELSE added = <<>>]_vars

\* the percentage an ownership map gives a tax ID, None when it gives none
ShareOf(dist, nif) == IF dist.t = "dict" THEN DistGet(dist.d, nif) ELSE None

\* the tax IDs of the deed map, and those the tax-form map has too
DeedShareIds == {PairProp.ownership_distribution.d[i].nif :
                    i \in DOMAIN PairProp.ownership_distribution.d}
SharedIds ==
    {nif \in DeedShareIds : ShareOf(PairTaxProp.ownership_distribution, nif).t # "none"}

\* both percentages are numbers and they differ by more than 0.1
SharesDiffer(e_pct, t_pct) ==
    LET d1 == parse_decimal(e_pct)
        d2 == parse_decimal(t_pct)
    IN d1.k = "num" /\ d2.k = "num" /\ AbsDiffVs(d1, d2, Dec(1, 1)) = "gt"

\* the CUOTA_MISMATCH issues a step added for a tax ID
ShareIssues(nif) ==
    LET about(i) == i.code = "CUOTA_MISMATCH" /\ i.field.arg = nif
    IN SelectSeq(Added, about)

\* C12: the rules run to the end on a pair add, for every tax ID in both
\* ownership maps, one CUOTA_MISMATCH error when the two percentages differ
\* by more than 0.1 and none when they do not, and no CUOTA_MISMATCH issue
\* for a tax ID that only one map has.
C12_ShareIssueIffDiffer ==
    [][RulesDone =>
        /\ \A i \in DOMAIN WithCode(Added, "CUOTA_MISMATCH") :
              /\ WithCode(Added, "CUOTA_MISMATCH")[i].field.arg \in SharedIds
              /\ WithCode(Added, "CUOTA_MISMATCH")[i].severity = "error"
        /\ \A nif \in SharedIds :
              Len(ShareIssues(nif)) =
                  IF SharesDiffer(ShareOf(PairProp.ownership_distribution, nif),
                                  ShareOf(PairTaxProp.ownership_distribution, nif))
                  THEN 1 ELSE 0]_vars

\* a record provides a value for a number: the key is there and is not None
Provided(pv) == pv.t \notin {"absent", "none"}

\* the issue is one the claim allows for the number of the two records
NumberIssueAllowed(issue, e_number, t_number) ==
    /\ Provided(e_number) /\ Provided(t_number)
    /\ normalize_text(Str(PyStr(e_number))) # normalize_text(Str(PyStr(t_number)))
    /\ issue.severity = "warning"

\* C13: every PROTOCOL_MISMATCH or DOCUMENT_NUMBER_MISMATCH issue the rules
\* add on a pair has severity warning and is added only when both records
\* provide that number (key there, not None) and the normalized texts
\* differ.
C13_NumberIssueOnlyIfBothDiffer ==
    [][RulesDone =>
        /\ \A i \in DOMAIN WithCode(Added, "PROTOCOL_MISMATCH") :
              NumberIssueAllowed(WithCode(Added, "PROTOCOL_MISMATCH")[i],
                                 PairDeed.protocol_number, PairForm.protocol_number)
        /\ \A i \in DOMAIN WithCode(Added, "DOCUMENT_NUMBER_MISMATCH") :
              NumberIssueAllowed(WithCode(Added, "DOCUMENT_NUMBER_MISMATCH")[i],
                                 PairDeed.document_number, PairForm.document_number)]_vars

\* the texts of the values a record holds: every value that is there and is
\* not None, as str() shows it
Texts(values) == {PyStr(v) : v \in {w \in values : Provided(w)}}

PersonTexts(persons) ==
    UNION {Texts({persons[i].seller_nif, persons[i].buyer_nif, persons[i].nif}) :
              i \in DOMAIN persons}

RecordTexts(rec) ==
    Texts({rec.document_number, rec.date_of_sale, rec.notary_name,
           rec.protocol_number, rec.notary.name})
    \cup PersonTexts(rec.sellers) \cup PersonTexts(rec.buyers)
    \cup UNION {Texts({rec.sale_breakdown[i].property_id, rec.sale_breakdown[i].seller_nif,
                       rec.sale_breakdown[i].percentage_sold}) :
                   i \in DOMAIN rec.sale_breakdown}

PropTexts(prop) ==
    Texts({prop[k] : k \in DOMAIN prop \ {"ownership_distribution"}})
    \cup Texts({prop.ownership_distribution.d[i].pct :
                   i \in DOMAIN prop.ownership_distribution.d})

\* the raw texts of a side of the input: of its records and their properties
RawTexts(records) ==
    UNION {RecordTexts(records[r])
           \cup UNION {PropTexts(records[r].properties[p]) :
                          p \in DOMAIN records[r].properties} :
              r \in DOMAIN records}

\* the issues made so far: of the reports and of the report being filled
IssuesSoFar ==
    UNION {Range(reports[i].issues) : i \in DOMAIN reports} \cup Range(report.issues)

\* C14: every issue records on the deed side a value that is in the deed
\* records as text (None only for an orphan tax form, which has no deed
\* side) and on the tax-form side a value that is in the tax forms as text
\* (None only for a missing tax form).
C14_IssuesRecordRawValues ==
    \A issue \in IssuesSoFar :
        /\ \/ issue.escritura_value \in RawTexts(data.escrituras)
           \/ issue.code = "ORPHAN_TAX_FORM" /\ issue.escritura_value = PyStr(None)
        /\ \/ issue.tax_form_value \in RawTexts(data.tax_forms)
           \/ issue.code = "MISSING_TAX_FORM" /\ issue.tax_form_value = PyStr(None)

\* the issues a run of the rules adds on the pair in a process whose sets
\* iterate in the order ord
IssuesOfRun(ord) ==
    CompareRules(PairDeed, PairForm, PairProp, PairTaxProp,
                 matches[Min2(cursor.m, Len(matches))].form_id, ord).issues

\* C15: the report a run leaves after a pair (its issues in their order,
\* with their recorded values and messages, and its status) is the one every
\* other run on the same input leaves, whatever process it is in.
C15_EveryRunAddsTheSame ==
    [][RulesDone =>
        \A ord \in Orders(PartyNifs(PairDeed, PairForm)) :
            report' = add_issues(report, IssuesOfRun(ord))]_vars

\* the k-th deed property of the input, and the items of the index
DeedPropAt(k) ==
    data.escrituras[DeedProps(data)[k][1]].properties[DeedProps(data)[k][2]]
IndexItems == UNION {Range(tax_by_catastral[g].items) : g \in DOMAIN tax_by_catastral}

\* C16: when the call returns, two distinct deed properties of which one
\* omits its id have reports with different property_id, and two tax forms
\* that omit their document number have different form ids.
C16_SynthesizedIdsAreDistinct ==
    pc = "done" =>
        /\ \A i, j \in DOMAIN DeedProps(data) :
              (i # j /\ (DeedPropAt(i).id.t = "absent" \/ DeedPropAt(j).id.t = "absent")) =>
                  reports[i].property_id # reports[j].property_id
        /\ \A a, b \in IndexItems :
              (/\ a.form # b.form
               /\ data.tax_forms[a.form].document_number.t = "absent"
               /\ data.tax_forms[b.form].document_number.t = "absent") =>
                  a.form_id # b.form_id

\* C17: reduce_merge_extractions starts only once the loop of
\* map_llm_extraction has gone through every OCR result, and what it is
\* given holds exactly one extraction per OCR result, in chunk order: the
\* record extracted from that chunk, or the empty record where the
\* extraction failed.
C17_MergeJoinsOnePerChunk ==
    /\ pc \in {"reduce", "reduced"} => chunk = Len(ocr_results)
    /\ pc = "reduced" =>
          /\ Len(received) = Len(ocr_results)
          /\ \A i \in DOMAIN ocr_results :
                i \in DOMAIN received
                /\ received[i] \in {Structured(ocr_results[i]), EmptyModel}

\* the three calls in the order OCR, LLM, validation, each given the output
\* of the one before
CallsInOrder ==
    calls = <<Call("ocr", Text(pdf_path)), Call("llm", ocr_text),
              Call("validation", extracted)>>

LastSeparatorDecimal(text) ==
    LET seps == {i \in DOMAIN text : text[i] \in {".", ","}}
        last == CHOOSE i \in seps : \A j \in seps : j <= i
        whole == Remove(SubSeq(text, 1, last - 1), {".", ","})
    IN IF seps = {} THEN DecimalOf(text)
       ELSE DecimalOf(whole \o <<".">> \o SubSeq(text, last + 1, Len(text)))

\* a declared value written with a comma
WrittenWithComma(val) == val.t = "str" /\ Contains(val.v, ",")

\* C19: a declared value written with a comma is read with its last dot or
\* comma as the decimal separator and the others as thousands separators, so
\* on a pair whose two declared values are written with a comma the rules add
\* a VALUE_MISMATCH issue exactly when the two numbers read that way differ by
\* more than 0.01 ("1.234,5" and "1,234.5" are the same number).
C19_LastSeparatorIsDecimal ==
    [][(RulesDone /\ data \in ValueInputs
        /\ WrittenWithComma(PairProp.declared_value)
        /\ WrittenWithComma(PairTaxProp.declared_value)) =>
        LET d1 == LastSeparatorDecimal(Strip(PairProp.declared_value.v))
            d2 == LastSeparatorDecimal(Strip(PairTaxProp.declared_value.v))
        IN /\ parse_decimal(PairProp.declared_value) = d1
           /\ parse_decimal(PairTaxProp.declared_value) = d2
           /\ (WithCode(Added, "VALUE_MISMATCH") # <<>>) <=> (AbsDiffVs(d1, d2, Dec(1, 2)) = "gt")]_vars


\* the positions of the field-name variants under which both properties of
\* the pair have a value
BothHaveSurface ==
    {k \in DOMAIN SuperficieKeys :
        /\ Truthy(Get(PairProp[SuperficieKeys[k]], None))
        /\ Truthy(Get(PairTaxProp[SuperficieKeys[k]], None))}

\* C20: on a pair the rules add at most one SUPERFICIE_MISMATCH warning, and
\* it concerns the first field-name variant, in the order surface_area,
\* superficie, superficie_construida, superficie_util, under which both
\* properties have a value: no later variant is compared once that one was,
\* whether it matched or not.
C20_OnlyFirstSurfacePairCompared ==
    [][(RulesDone /\ data \in SurfaceInputs) =>
        LET added == WithCode(Added, "SUPERFICIE_MISMATCH")
        IN /\ Len(added) <= 1
           /\ added # <<>> =>
                 /\ BothHaveSurface # {}
                 /\ added[1].severity = "warning"
                 /\ LET first == CHOOSE k \in BothHaveSurface :
                                    \A j \in BothHaveSurface : k <= j
                    IN added[1].field = F(SuperficieKeys[first])]_vars


\* the property entries the chunks hold, in the order of the chunks, and the
\* entries the merge made of them
EntriesIn == AllItems(Values(chunk_results, "properties"))
EntriesOut == DictGet(merged_dict, "properties", List(<<>>)).v

\* the properties of the chunks have been deduplicated
PropertiesMerged == pc = "validate" /\ chunk_results \in PropertyInputs

\* the group of an entry as the text has it: its reference in upper case
\* without spaces and dashes, or without a reference its address, trimmed
\* and in one case
GroupOf(prop) ==
    LET ref == DictGet(prop, "ref_catastral", Str(<<>>))
        address == DictGet(prop, "address", Str(<<>>))
    IN IF Bool(ref) /\ Strip(ref.v) # <<>>
       THEN <<"ref", Remove(Upper(Strip(ref.v)), {" ", "-"})>>
       ELSE <<"addr", Lower(Strip(address.v))>>

\* C21: the merge of property entries that all have a reference or an
\* address returns one entry per group, two entries being in one group when
\* their references are equal in upper case without spaces and dashes, or,
\* without a reference, when their normalized addresses are equal.
C21_OneEntryPerGroup ==
    PropertiesMerged =>
        /\ Len(EntriesOut) = Cardinality({GroupOf(EntriesIn[i]) : i \in DOMAIN EntriesIn})
        /\ \A i, j \in DOMAIN EntriesOut :
              GroupOf(EntriesOut[i]) = GroupOf(EntriesOut[j]) => i = j


\* the number a value writes, in plain or in Spanish format (dots for the
\* thousands, a comma before the decimals)
NumberWritten(pv) ==
    LET text == Strip(PyStr(pv))
    IN IF Contains(text, ",")
       THEN DecimalOf(ReplaceChar(Remove(text, {"."}), ",", "."))
       ELSE DecimalOf(text)

\* the values a field has in the entries that the merge put into the group
\* of an entry, the missing ones left out
GroupValues(merged, field_name) ==
    LET member(prop) == PropertyKey(prop) = PropertyKey(merged)
        group == SelectSeq(EntriesIn, member)
    IN {DictGet(group[i], field_name, None) : i \in DOMAIN group}
           \ {None, Str(<<>>)}

\* C22: in every entry the merge returns for a group, declared_value and
\* surface_area hold a value of the group that no value of the group
\* exceeds, the values read as numbers in plain or in Spanish format.
C22_MergedIsLargest ==
    PropertiesMerged =>
        \A i \in DOMAIN EntriesOut :
            \A field_name \in {"declared_value", "surface_area"} :
                LET values == GroupValues(EntriesOut[i], field_name)
                    merged == DictGet(EntriesOut[i], field_name, None)
                IN values # {} =>
                      /\ merged \in values
                      /\ \A value \in values :
                            ~FloatGreater(NumberWritten(value), NumberWritten(merged))


\* a text with every accented vowel replaced by the plain vowel ("ñ" kept)
WithoutDiacritics(s) ==
    LET plain(c) == CASE c \in {"á", "Á"} -> "A"
                      [] c \in {"é", "É"} -> "E"
                      [] c \in {"í", "Í"} -> "I"
                      [] c \in {"ó", "Ó"} -> "O"
                      [] c \in {"ú", "Ú"} -> "U"
                      [] OTHER -> c
    IN [i \in DOMAIN s |-> plain(s[i])]

\* the notary name a record provides, under either key
NotaryGiven(record) == Or(NotaryName(record), Get(record.notary_name, None))

\* the name in upper case, trimmed, runs of whitespace as one space, and
\* without diacritics
NotaryNormalized(record) == WithoutDiacritics(normalize_text(NotaryGiven(record)))

\* C23: when the rules have run on a pair, the NOTARY_MISMATCH issues they
\* added are one warning if both records provide a non-empty notary name and
\* the two names differ in more than diacritics (other than ñ), letter case
\* and runs of whitespace, and none otherwise.
C23_NotaryIssueIffNamesDiffer ==
    [][(RulesDone /\ data \in NotaryInputs) =>
        LET added == WithCode(Added, "NOTARY_MISMATCH")
        IN IF /\ Truthy(NotaryGiven(PairDeed)) /\ Truthy(NotaryGiven(PairForm))
              /\ NotaryNormalized(PairDeed) # <<>> /\ NotaryNormalized(PairForm) # <<>>
              /\ NotaryNormalized(PairDeed) # NotaryNormalized(PairForm)
           THEN Len(added) = 1 /\ added[1].severity = "warning"
           ELSE added = <<>>]_vars


\* two normalized references of at least 14 characters that agree on the
\* first 14
SamePrefix(ref, key) ==
    /\ Len(ref) >= SignificantPrefix /\ Len(key) >= SignificantPrefix
    /\ SubSeq(ref, 1, SignificantPrefix) = SubSeq(key, 1, SignificantPrefix)

\* the form ids of the tax-form properties under index key g
FormsUnder(g) ==
    [i \in DOMAIN tax_by_catastral[g].items |-> tax_by_catastral[g].items[i].form_id]

\* fuzzy_match_catastral accepts every deed reference and index key of the
\* call of at least 14 characters that agree on their first 14
PrefixIsAccepted ==
    \A k \in DOMAIN DeedProps(data) : \A key \in IndexKeys(tax_by_catastral) :
        SamePrefix(DeedRef(k), key) => fuzzy_match_catastral(DeedRef(k), key)

\* C24 as stated: fuzzy_match_catastral accepts two references of at least
\* 14 characters that agree on their first 14, whatever their similarity,
\* and so in the result every deed property is matched with the tax-form
\* properties of every index key that agrees with its reference on the first
\* 14 characters.
C24_SamePrefixIsMatched ==
    pc = "done" =>
       /\ PrefixIsAccepted
       /\ \A k \in DOMAIN DeedProps(data) : \A g \in DOMAIN tax_by_catastral :
              SamePrefix(DeedRef(k), tax_by_catastral[g].ref) =>
                  Range(FormsUnder(g)) \subseteq Range(reports[k].matched_forms)

\* C24 amended: fuzzy_match_catastral accepts two references of at least 14
\* characters that agree on their first 14, whatever their similarity; in
\* the result a deed property whose reference is an index key is matched with
\* the tax-form properties under that key only, and one whose reference is no
\* index key is matched with those under an index key that agrees with it on
\* the first 14 characters when no earlier key of the index is accepted.
C24_SamePrefixIsMatchedWhenFirst ==
    pc = "done" =>
       /\ PrefixIsAccepted
       /\ \A k \in DOMAIN DeedProps(data) : \A g \in DOMAIN tax_by_catastral :
              LET ref == DeedRef(k)
              IN /\ ref = tax_by_catastral[g].ref => reports[k].matched_forms = FormsUnder(g)
                 /\ (/\ SamePrefix(ref, tax_by_catastral[g].ref)
                     /\ ref \notin IndexKeys(tax_by_catastral)
                     /\ \A h \in 1..(g - 1) :
                           ~fuzzy_match_catastral(ref, tax_by_catastral[h].ref))
                        => reports[k].matched_forms = FormsUnder(g)

\* the call returned with a deed property matched on the first 14 characters
\* alone: its truncated reference is no index key and is less than 0.85
\* similar to the key it was matched with
C24_Witness ==
    /\ pc = "done"
    /\ \E k \in DOMAIN DeedProps(data) : \E g \in DOMAIN tax_by_catastral :
          /\ SamePrefix(DeedRef(k), tax_by_catastral[g].ref)
          /\ DeedRef(k) \notin IndexKeys(tax_by_catastral)
          /\ ~RatioAtLeast(DeedRef(k), tax_by_catastral[g].ref, 85, 100)
          /\ reports[k].matched_forms = FormsUnder(g)
          /\ <<DeedRef(k), tax_by_catastral[g].ref>> \in Range(fuzzy_log)


\* the chunks without the empty records of failed extractions
WithoutEmpty(chunks, class) ==
    LET extracted_one(c) == c \notin {Dict(<<>>), EmptyRecord(class)}
    IN SelectSeq(chunks, extracted_one)

\* the first n fields of the class merged over the chunks
RECURSIVE MergedFields(_, _, _)
MergedFields(chunks, class, n) ==
    IF n = 0 THEN Ok(Dict(<<>>))
    ELSE LET before == MergedFields(chunks, class, n - 1)
             field == Schema(class)[n]
             merged == MergeValues(Values(chunks, field.name), field.kind = "list")
         IN IF before.raise # "none" THEN before
            ELSE IF merged.raise # "none" THEN merged
            ELSE Ok(DictSet(before.value, field.name, merged.value))

\* what the merge of the chunks returns, or the exception that leaves it
MergeOf(chunks, class) ==
    LET merged == MergedFields(chunks, class, Len(Schema(class)))
        post == PostProcess(PostProcess(PostProcess(merged, "sellers"), "buyers"),
                            "properties")
    IN IF post.raise # "none" THEN post
       ELSE LET validated == Validate(class, post.value)
            IN Ok(IF validated.ok
                  THEN [kind |-> "validated", fields |-> validated.value]
                  ELSE [kind |-> "constructed", fields |-> post.value])

FormIds == {FormId(data.tax_forms[f], f - 1) : f \in DOMAIN data.tax_forms}

\* what a report holds of the forms is the text of a form id, not a record
\* of the input
HoldsFormIdsOnly(rep) ==
    /\ \A j \in DOMAIN rep.matched_forms : rep.matched_forms[j] \in FormIds
    /\ \A j \in DOMAIN rep.issues :
          rep.issues[j].form_id \in {None} \cup {Str(id) : id \in FormIds}

MaxCalls == 2

\* a step result that is None, and one json.dumps has no encoding for
NoneValue == [kind |-> "None", fields |-> <<>>]
Unserializable == [kind |-> "object", fields |-> <<>>]

\* what client.get returns for a key that is not there
NoEntry == [json |-> [kind |-> "nil", fields |-> <<>>]]

\* the inputs the step is called with and the values its function returns
StepPrefix == "ocr"
StepData == {<<"a">>, <<"b">>}
StepResults ==
    {NoneValue, Text(<<"x">>), Text(<<>>), Plain(<<"l">>), Model(<<"l">>), Unserializable}

\* lines 14-23 and 135: json.dumps(result, cls=CustomJSONEncoder), the text
\* named by the JSON value it holds: a model is written as its model_dump()
Serializable(value) == value.kind # "object"
json_dumps(value) ==
    [json |-> IF value.kind = "model" THEN Plain(value.fields) ELSE value]

\* line 110: json.loads(cached)
json_loads(text) == text.json

\* lines 72-89: the key, one per prefix and input content
generate_key(prefix, input) == <<prefix, input>>

Keys == {generate_key(StepPrefix, d) : d \in StepData}
StoredTexts == {json_dumps(r) : r \in {v \in StepResults : Serializable(v)}}

\* the wrapper before its first statement
WrapperOn(input, n) ==
    [data |-> input, cached |-> NoEntry, cached_result |-> NoneValue,
     result |-> NoneValue, runs |-> 0, stored |-> FALSE, returned |-> NoneValue,
     n |-> n]

\* a call wrapper(data) begins
WrapperCall ==
    /\ pc \in {"call", "returned", "raised"}
    /\ wrapper.n < MaxCalls
    /\ \E input \in StepData : wrapper' = WrapperOn(input, wrapper.n + 1)
    /\ pc' = "get"
    /\ error' = "none"
    /\ UNCHANGED <<store, enabled, extraction, session>>
    /\ UNCHANGED <<compareVars, mergeVars, flowVars>>

\* lines 91-116 and 210-213: cached_result = cache.get(prefix, data), and
\* the wrapper returns it unless it is None
CacheGet ==
    /\ pc = "get"
    /\ \E fails \in BOOLEAN :
          LET key == generate_key(StepPrefix, wrapper.data)
              cached == IF enabled /\ ~fails THEN store[key] ELSE NoEntry
              cached_result ==
                  IF cached # NoEntry THEN json_loads(cached) ELSE NoneValue
          IN  /\ wrapper' = [wrapper EXCEPT !.cached = cached,
                                            !.cached_result = cached_result,
                                            !.returned = cached_result]
              /\ pc' = IF cached_result # NoneValue THEN "returned" ELSE "run"
    /\ UNCHANGED <<store, enabled, extraction, session, error>>
    /\ UNCHANGED <<compareVars, mergeVars, flowVars>>

\* line 217: result = func(data); an exception of func leaves the wrapper
RunFunc ==
    /\ pc = "run"
    /\ \/ /\ \E value \in StepResults :
                wrapper' = [wrapper EXCEPT !.result = value, !.runs = @ + 1]
          /\ pc' = "set"
          /\ UNCHANGED error
       \/ /\ wrapper' = [wrapper EXCEPT !.runs = @ + 1]
          /\ pc' = "raised"
          /\ error' = "Exception"
    /\ UNCHANGED <<store, enabled, extraction, session>>
    /\ UNCHANGED <<compareVars, mergeVars, flowVars>>

\* lines 118-142 and 220-221: cache.set(prefix, data, result); return result
CacheSet ==
    /\ pc = "set"
    /\ \E fails \in BOOLEAN :
          LET key == generate_key(StepPrefix, wrapper.data)
              written == enabled /\ Serializable(wrapper.result) /\ ~fails
          IN  /\ store' = IF written
                            THEN [store EXCEPT ![key] = json_dumps(wrapper.result)]
                            ELSE store
              /\ wrapper' = [wrapper EXCEPT !.stored = written,
                                            !.returned = wrapper.result]
    /\ pc' = "returned"
    /\ UNCHANGED <<enabled, extraction, session, error>>
    /\ UNCHANGED <<compareVars, mergeVars, flowVars>>

\* line 137: the entry of a key goes away when its ttl has passed, before
\* the call or while it runs
Expire ==
    /\ pc \in {"get", "run", "set"}
    /\ \E key \in Keys :
          /\ store[key] # NoEntry
          /\ store' = [store EXCEPT ![key] = NoEntry]
    /\ UNCHANGED <<pc, enabled, wrapper, extraction, session, error>>
    /\ UNCHANGED <<compareVars, mergeVars, flowVars>>

NextCache == WrapperCall \/ CacheGet \/ RunFunc \/ CacheSet \/ Expire

\* a cache that is on or off, over a Redis that holds what earlier calls wrote
InitCache ==
    /\ NoCompare
    /\ NoMerge
    /\ NoFlow
    /\ error = "none"
    /\ pc = "call"
    /\ store \in [Keys -> StoredTexts \cup {NoEntry}]
    /\ enabled \in BOOLEAN
    /\ wrapper = WrapperOn(<<>>, 0)
    /\ extraction = <<>>
    /\ session = <<>>

SpecCache == InitCache /\ [][NextCache]_vars

\* C27: a call of a wrapped step that found an entry under its key (a hit)
\* has not run the function and returns the stored value; a call that found
\* none (a miss, a disabled cache or a failed read) has run the function once
\* and returns its result, stored under the key unless the write failed.
CacheHit == wrapper.cached # NoEntry

C27_RunsOnlyOnMiss ==
    pc = "returned" =>
        IF CacheHit
        THEN /\ wrapper.runs = 0
             /\ wrapper.returned = json_loads(wrapper.cached)
        ELSE /\ wrapper.runs = 1
             /\ wrapper.returned = wrapper.result
             /\ wrapper.stored =>
                   store[generate_key(StepPrefix, wrapper.data)] = json_dumps(wrapper.result)


\* ------------------------------------------------- the extraction calls
\* src/src/core/llm.py: the retry loops of extract_structured_data and
\* extract_from_chunk

max_retries == 2

ExtractionFunctions == {"extract_structured_data", "extract_from_chunk"}
Providers == {"openai", "ollama", "other"}
ExtractionTexts == {<<"x">>, <<"y">>}

\* what a backend call that succeeds gives, and the exceptions of one that
\* does not: of the client, of json.loads and of the model
BackendOutputs == {Model(<<"l">>), Model(<<"m">>), NoneValue}
BackendErrors == {"ConnectionError", "TimeoutError", "JSONDecodeError", "ValidationError"}

\* line 355: model.model_construct()
Constructed == Model(<<>>)

\* the call before its first attempt
ExtractionOf(fn, provider, text) ==
    [fn |-> fn, provider |-> provider, text |-> text, attempt |-> 1,
     backend_calls |-> 0, errors |-> <<>>, succeeded |-> FALSE,
     returned |-> NoneValue]

\* an exception leaves the last attempt of either function
LastFailureRaises(call, exception) ==
    /\ pc' = "raised"
    /\ error' = exception
    /\ extraction' = [call EXCEPT !.errors = Append(@, exception)]

\* lines 175-180 and 350-355: the except clause of the last attempt
LastFailure(call, exception) ==
    IF call.fn = "extract_structured_data"
    THEN /\ pc' = "raised"
         /\ error' = exception
         /\ extraction' = [call EXCEPT !.errors = Append(@, exception)]
    ELSE /\ pc' = "returned"
         /\ error' = "none"
         /\ extraction' = [call EXCEPT !.errors = Append(@, exception),
                                       !.returned = Constructed]

\* lines 145-180 and 320-355: one pass of the loop body
Attempt ==
    /\ pc = "attempt"
    /\ LET called == extraction.provider # "other"
           call == [extraction EXCEPT
                       !.backend_calls = IF called THEN @ + 1 ELSE @]
           Fails(exception) ==
               IF extraction.attempt < max_retries
               THEN /\ extraction' = [call EXCEPT !.errors = Append(@, exception),
                                                  !.attempt = @ + 1]
                    /\ UNCHANGED <<pc, error>>
               ELSE LastFailure(call, exception)
       IN  IF called
           THEN \/ \E output \in BackendOutputs :
                      /\ extraction' = [call EXCEPT !.succeeded = TRUE,
                                                    !.returned = output]
                      /\ pc' = "returned"
                      /\ UNCHANGED error
                \/ \E exception \in BackendErrors : Fails(exception)
           ELSE Fails("ValueError")
    /\ UNCHANGED <<store, enabled, wrapper, session>>
    /\ UNCHANGED <<compareVars, mergeVars, flowVars>>

NextExtract == Attempt

InitExtract ==
    /\ NoCompare
    /\ NoMerge
    /\ NoFlow
    /\ error = "none"
    /\ pc = "attempt"
    /\ store = <<>>
    /\ enabled = FALSE
    /\ wrapper = <<>>
    /\ \E fn \in ExtractionFunctions, provider \in Providers, text \in ExtractionTexts :
          extraction = ExtractionOf(fn, provider, text)
    /\ session = <<>>

SpecExtract == InitExtract /\ [][NextExtract]_vars

\* C28: either function calls the backend at most twice and stops at the
\* first success; after two failures extract_structured_data raises the
\* second error and extract_from_chunk returns an empty record, and
\* extract_from_chunk never raises.
Failures == Len(extraction.errors)

C28_TwoAttemptsThenRaiseOrEmpty ==
    /\ extraction.backend_calls <= 2
    /\ Failures <= 2
    /\ extraction.succeeded =>
          /\ pc = "returned"
          /\ extraction.backend_calls = Failures + 1
          /\ extraction.returned \in BackendOutputs
    /\ Failures = 2 =>
          IF extraction.fn = "extract_structured_data"
          THEN pc = "raised" /\ error = extraction.errors[2]
          ELSE pc = "returned" /\ extraction.returned = Constructed
    /\ pc = "raised" => extraction.fn = "extract_structured_data" /\ Failures = 2
    /\ pc = "returned" => extraction.succeeded \/ Failures = 2

C28_Witness ==
    /\ pc = "returned"
    /\ extraction.fn = "extract_from_chunk"
    /\ extraction.backend_calls = 2
    /\ Failures = 2
    /\ extraction.errors[1] # extraction.errors[2]


\* the index key of a tax-form property: its normalized reference, empty
\* when the property has none
TaxKey(item) ==
    normalize_catastral_ref(Get(ItemProperty(data, item).ref_catastral, Str(<<>>)))

\* C29: when the call returns, every tax-form property of the input is in
\* the match group of some deed property or under a key that has an
\* ORPHAN_TAX_FORM report, also a property with no reference.
C29_EveryTaxPropertyAccounted ==
    pc = "done" =>
        \A item \in Range(TaxProperties(data.tax_forms)) :
            TaxKey(item) \in MatchedKeys \cup OrphanRefs


\* ------------------------------------------------- the case workflow
\* src/src/ui: the session state, the stages of navigation.py and the
\* pages that read and write the case

MaxEdits == 1

\* lines 19-48 of navigation.py: the keys of STAGES, in order
STAGES == <<"upload", "extraction", "review", "decision">>

Pages == {"upload", "extraction", "review", "matcher", "decision", "settings"}

NoDecision == [status |-> "None", notes |-> <<>>]
Decision(status, notes) == [status |-> status, notes |-> notes]

\* state.py lines 25-35: CaseState(); meta is the set of its keys that hold
\* a true value
CaseState ==
    [id |-> "None",
     files |-> [escritura_path |-> "None", modelo_path |-> "None"],
     extracted |-> [escritura |-> "None", modelo |-> "None"],
     comparison |-> "None",
     edits |-> 0,
     decision |-> NoDecision,
     meta |-> {}]

\* bool(x) of a path, an extraction or a comparison
IsSet(x) == x \notin {"None", "{}", "[]"}

\* navigation.py lines 24-46: Stage.is_complete
is_complete(key, case) ==
    CASE key = "upload" ->
            IsSet(case.files.escritura_path) /\ IsSet(case.files.modelo_path)
      [] key = "extraction" ->
            /\ IsSet(case.extracted.escritura)
            /\ IsSet(case.extracted.modelo)
            /\ IsSet(case.comparison)
      [] key = "review" -> "revision_lista" \in case.meta
      [] key = "decision" -> case.decision # NoDecision

\* navigation.py lines 51-55: the stages before the target
stages_before(target_key) ==
    LET at == CHOOSE i \in DOMAIN STAGES : STAGES[i] = target_key
    IN  SubSeq(STAGES, 1, at - 1)

\* navigation.py lines 58-66: require_stage stops the page
require_stage(stage_key, case) ==
    \E i \in DOMAIN stages_before(stage_key) :
        ~is_complete(stages_before(stage_key)[i], case)

\* the session of a browser that has just opened the application
SessionOn(page) ==
    [case |-> CaseState, nav_page |-> page, stopped |-> FALSE,
     confirm_reset_case |-> FALSE]

Others == <<store, enabled, wrapper, extraction>>

\* the user picks a page; review_discrepancies.py line 38,
\* extraction_status.py line 23 and properties_matcher.py line 19 are the
\* shortcuts of the pages
NavigateTo(page) ==
    /\ pc = "page"
    /\ page # session.nav_page
    /\ session' = [session EXCEPT !.nav_page = page, !.stopped = FALSE]
    /\ UNCHANGED <<pc, error, Others>>
    /\ UNCHANGED <<compareVars, mergeVars, flowVars>>

Navigate == \E page \in Pages : NavigateTo(page)

\* upload_intake.py lines 29-111: the page with "Ejecutar canalizaciones"
\* pressed, the button disabled unless both documents are there
RegisterFiles ==
    /\ pc = "page"
    /\ session.nav_page = "upload"
    /\ \E escritura_path \in {"None", "e.pdf"}, modelo_path \in {"None", "m.pdf"} :
          /\ IsSet(escritura_path) /\ IsSet(modelo_path)
          /\ session' =
                [session EXCEPT
                    !.case.id = "CASO",
                    !.case.files = [escritura_path |-> escritura_path,
                                    modelo_path |-> modelo_path],
                    !.case.meta = @ \cup {"hashes"}]
    /\ UNCHANGED <<pc, error, Others>>
    /\ UNCHANGED <<compareVars, mergeVars, flowVars>>

\* extraction_status.py lines 10-57: the page with "Ejecutar extracción
\* ahora" pressed; the pipelines and the comparison give what they give
RunExtraction ==
    /\ pc = "page"
    /\ session.nav_page = "extraction"
    /\ is_complete("upload", session.case)
    /\ \E escritura \in {"{}", "data"}, modelo \in {"{}", "data"},
          comparison \in {"[]", "reports"} :
          session' =
              [session EXCEPT
                  !.case.extracted = [escritura |-> escritura, modelo |-> modelo],
                  !.case.comparison = comparison,
                  !.case.meta = @ \cup {"timings"}]
    /\ UNCHANGED <<pc, error, Others>>
    /\ UNCHANGED <<compareVars, mergeVars, flowVars>>

\* review_discrepancies.py lines 27-63: the page with a row of the table
\* edited
EditDiscrepancy ==
    /\ pc = "page"
    /\ session.nav_page = "review"
    /\ IsSet(session.case.extracted.escritura)
    /\ session.case.comparison = "reports"
    /\ session.case.edits < MaxEdits
    /\ session' = [session EXCEPT !.case.extracted.escritura = "edited",
                                  !.case.edits = @ + 1]
    /\ UNCHANGED <<pc, error, Others>>
    /\ UNCHANGED <<compareVars, mergeVars, flowVars>>

\* properties_matcher.py lines 9-37: the page with "Normalizar referencia
\* catastral" pressed on an item
NormalizeItem ==
    /\ pc = "page"
    /\ session.nav_page = "matcher"
    /\ session.case.comparison = "reports"
    /\ session' = [session EXCEPT !.case.comparison = "normalized"]
    /\ UNCHANGED <<pc, error, Others>>
    /\ UNCHANGED <<compareVars, mergeVars, flowVars>>

\* decision_report.py lines 10-37: the page, with "Guardar decisión"
\* pressed or not
RenderDecision ==
    /\ pc = "page"
    /\ session.nav_page = "decision"
    /\ \E pressed \in BOOLEAN, status_value \in {"approve", "request_info", "reject"},
          notes \in {<<>>, <<"n">>} :
          LET stops == require_stage("decision", session.case)
              saves == /\ ~stops
                       /\ pressed
                       /\ ~(status_value \in {"reject", "request_info"} /\ notes = <<>>)
          IN  session' =
                  [session EXCEPT
                      !.stopped = stops,
                      !.case.decision =
                          IF saves THEN Decision(status_value, notes) ELSE @]
    /\ UNCHANGED <<pc, error, Others>>
    /\ UNCHANGED <<compareVars, mergeVars, flowVars>>

\* settings.py lines 49-62: "Reset case", then "Yes, reset case" or "Cancel"
ResetCase ==
    /\ pc = "page"
    /\ session.nav_page = "settings"
    /\ IF ~session.confirm_reset_case
       THEN session' = [session EXCEPT !.confirm_reset_case = TRUE]
       ELSE \E yes \in BOOLEAN :
               session' = [session EXCEPT
                              !.confirm_reset_case = FALSE,
                              !.case = IF yes THEN CaseState ELSE @]
    /\ UNCHANGED <<pc, error, Others>>
    /\ UNCHANGED <<compareVars, mergeVars, flowVars>>

NextWorkflow ==
    \/ Navigate
    \/ RegisterFiles
    \/ RunExtraction
    \/ EditDiscrepancy
    \/ NormalizeItem
    \/ RenderDecision
    \/ ResetCase

InitWorkflow ==
    /\ NoCompare
    /\ NoMerge
    /\ NoFlow
    /\ error = "none"
    /\ pc = "page"
    /\ store = <<>>
    /\ enabled = FALSE
    /\ wrapper = <<>>
    /\ extraction = <<>>
    /\ session \in {SessionOn(page) : page \in Pages}

\* a user who keeps opening every page and using every control it offers
SpecWorkflow ==
    /\ InitWorkflow
    /\ [][NextWorkflow]_vars
    /\ \A page \in Pages : SF_vars(NavigateTo(page))
    /\ SF_vars(RegisterFiles)
    /\ SF_vars(RunExtraction)
    /\ SF_vars(EditDiscrepancy)
    /\ SF_vars(NormalizeItem)
    /\ SF_vars(RenderDecision)
    /\ SF_vars(ResetCase)

\* C30: a case whose upload and extraction stages are complete gets its
\* review stage complete, after which the decision page is not stopped and
\* a decision is saved; and the decision page is stopped exactly when a
\* stage before it is incomplete.
UploadComplete ==
    /\ session.case.files.escritura_path # "None"
    /\ session.case.files.modelo_path # "None"

ExtractionComplete ==
    /\ session.case.extracted.escritura \in {"data", "edited"}
    /\ session.case.extracted.modelo \in {"data", "edited"}
    /\ session.case.comparison \in {"reports", "normalized"}

ReviewComplete == "revision_lista" \in session.case.meta

DecisionSaved == session.case.decision # NoDecision

C30_WorkflowReachesDecision ==
    /\ (UploadComplete /\ ExtractionComplete) ~> ReviewComplete
    /\ ReviewComplete ~> DecisionSaved
    /\ [][RenderDecision =>
            (session'.stopped <=>
                ~(UploadComplete /\ ExtractionComplete /\ ReviewComplete))]_vars

====
